---- MODULE Spec2Model ----
(***************************************************************************)
(* Transport controller and marker/loop engine of stemux.                  *)
(*                                                                         *)
(* The zustand store (useAudioStore), the module-level registries          *)
(* wavesurferInstances / finishedInstances / isSynchronizing and the       *)
(* WaveformDisplay event handlers are modelled as one state machine.       *)
(* Times are counted in ticks, TicksPerSecond to the second.  Every store operation is an operator from a   *)
(* store record to a store record, so that an operation that calls another *)
(* one (toggleLoopById -> seek, pause -> toggleRecordArm, the timeupdate   *)
(* handler -> seek) is the composition the code performs.                  *)
(***************************************************************************)
EXTENDS Integers, Sequences, FiniteSets, TLC

VARIABLES
    tracks,                  \* store.tracks: sequence of track records
    playbackState,           \* store.playbackState: isPlaying, currentTime, duration
    loopState,               \* store.loopState: markers, loops, activeLoopId, editMode
    preserveLoopOnNextSeek,  \* store._preserveLoopOnNextSeek
    loopBackup,              \* store.loopBackup: NULL, or the activeLoopId of { activeLoopId }
    recordingStartTime,      \* store.recordingStartTime: NULL or a time
    wavesurferInstances,     \* registry trackId -> adapter state
    finishedInstances,       \* set of track ids whose adapter reported finish
    isSynchronizing,         \* module flag set by seek
    syncTimers,              \* number of pending 50 ms timers started by seek
    playbackTime,            \* usePlaybackTime's lightweight currentTime
    nextId,                  \* ids minted so far: [track, marker, loop]
    seekCalls,               \* history: arguments of the seek calls made by the last step
    playCalls,               \* history: adapters the last step called play() on, in call order
    recorders,               \* RecordableWaveform components, by track id
    currentPieceId,          \* store.currentPieceId: NULL or a piece id
    pieces,                  \* ids of the pieces saved by createPiece
    addTrackCalls            \* addTrack calls waiting in `await createPiece`: the tracks each read at entry

vars == <<tracks, playbackState, loopState, preserveLoopOnNextSeek, loopBackup,
          recordingStartTime, wavesurferInstances, finishedInstances,
          isSynchronizing, syncTimers, playbackTime, nextId, seekCalls, playCalls,
          recorders, currentPieceId, pieces, addTrackCalls>>

(***************************************************************************)
(* Program constants and bounds                                            *)
(***************************************************************************)
NULL == 0               \* null / undefined id; real ids start at 1
MarkerCap == 20         \* addMarker: loopState.markers.length >= 20
LoopCap == 10           \* createLoop: loopState.loops.length >= 10
TrackCap == 8           \* addTrack: tracks.length >= 8
ThrottleMs == 20        \* timeupdate: now - lastTimeUpdate > 20

MaxTime == 2            \* longest track, in ticks; times range over 0..MaxTime
TicksPerSecond == 2     \* resolution of the time axis
MaxTracks == 3          \* tracks added in the mute/solo specification
MaxMarkerIds == 3       \* marker ids minted
MaxLoopIds == 2         \* loop ids minted
MaxTimers == 1          \* pending seek timers
MaxDroppedFiles == 3      \* files in one drop
MaxOverlappingSeeks == 2  \* seeks whose timers are pending together
MaxRestoredGap == 4     \* a restored marker list is at most this far below the cap
MaxRestoredLoops == 2   \* a restored loop list is at most this far below the cap,
                        \* a marker list restored with it at most one more
MaxChannels == 3        \* channels of a captured buffer
MaxFrames == 2          \* frames of a captured buffer
MaxSampleRate == 2      \* frames per tick of a captured buffer

Times == 0..MaxTime
Durations == {MaxTime}

\* RecordableWaveform before its first effect: no record plugin, the ref
\* recordingStartTimeRef at 0.  deps: the effect's dependencies at its last run
\* (<<>> while the component is not mounted); expected: the closure's
\* track.recordingStartOffset; ending: a stopped capture whose record-end is
\* still to come, endingExpected its closure's offset; compensatedOffset: the
\* last offset handed to addSilencePadding, in halves of a tick
\* paddedBuffer: the last buffer addSilencePadding built; a frame is named by
\* the captured channels it is mixed from and its index in the captured buffer
NoBuffer == [numberOfChannels |-> 0, sampleRate |-> 0, left |-> <<>>, right |-> <<>>]
NoRecorder == [deps |-> <<>>, plugin |-> FALSE, expected |-> NULL, starting |-> FALSE,
               capturing |-> FALSE, actualStartTime |-> 0, ending |-> FALSE,
               endingExpected |-> NULL, compensatedOffset |-> 0, saving |-> FALSE,
               paddedBuffer |-> NoBuffer]

(***************************************************************************)
(* The store as one record                                                 *)
(***************************************************************************)
St == [tracks |-> tracks, playbackState |-> playbackState, loopState |-> loopState,
       preserve |-> preserveLoopOnNextSeek, loopBackup |-> loopBackup,
       recordingStartTime |-> recordingStartTime,
       ws |-> wavesurferInstances, finished |-> finishedInstances,
       isSynchronizing |-> isSynchronizing, syncTimers |-> syncTimers,
       playbackTime |-> playbackTime, nextId |-> nextId, seekCalls |-> <<>>,
       playCalls |-> <<>>, recorders |-> recorders, currentPieceId |-> currentPieceId,
       pieces |-> pieces, addTrackCalls |-> addTrackCalls]

Commit(s) ==
    /\ tracks' = s.tracks
    /\ playbackState' = s.playbackState
    /\ loopState' = s.loopState
    /\ preserveLoopOnNextSeek' = s.preserve
    /\ loopBackup' = s.loopBackup
    /\ recordingStartTime' = s.recordingStartTime
    /\ wavesurferInstances' = s.ws
    /\ finishedInstances' = s.finished
    /\ isSynchronizing' = s.isSynchronizing
    /\ syncTimers' = s.syncTimers
    /\ playbackTime' = s.playbackTime
    /\ nextId' = s.nextId
    /\ seekCalls' = s.seekCalls
    /\ playCalls' = s.playCalls
    /\ recorders' = s.recorders
    /\ currentPieceId' = s.currentPieceId
    /\ pieces' = s.pieces
    /\ addTrackCalls' = s.addTrackCalls

Init ==
    /\ tracks = <<>>
    /\ playbackState = [isPlaying |-> FALSE, currentTime |-> 0, duration |-> 0]
    /\ loopState = [markers |-> <<>>, loops |-> <<>>, activeLoopId |-> NULL, editMode |-> FALSE]
    /\ preserveLoopOnNextSeek = FALSE
    /\ loopBackup = NULL
    /\ recordingStartTime = NULL
    /\ wavesurferInstances = <<>>
    /\ finishedInstances = {}
    /\ isSynchronizing = FALSE
    /\ syncTimers = 0
    /\ playbackTime = 0
    /\ nextId = [track |-> 0, marker |-> 0, loop |-> 0]
    /\ seekCalls = <<>>
    /\ playCalls = <<>>
    /\ recorders = [id \in 1..TrackCap |-> NoRecorder]
    /\ currentPieceId = 1
    /\ pieces = {1}
    /\ addTrackCalls = <<>>

(***************************************************************************)
(* Array helpers                                                           *)
(***************************************************************************)
Max(a, b) == IF a >= b THEN a ELSE b
Min(a, b) == IF a <= b THEN a ELSE b

\* Array.prototype.find on an id: the first element with that id, if any
HasId(seq, id) == \E i \in 1..Len(seq) : seq[i].id = id
FindId(seq, id) == seq[CHOOSE i \in 1..Len(seq) : seq[i].id = id /\ \A j \in 1..(i-1) : seq[j].id # id]

\* Array.prototype.sort((a, b) => a.time - b.time): stable, by insertion
RECURSIVE InsertByTime(_, _)
InsertByTime(sorted, m) ==
    IF sorted = <<>> THEN <<m>>
    ELSE IF sorted[Len(sorted)].time <= m.time THEN Append(sorted, m)
    ELSE Append(InsertByTime(SubSeq(sorted, 1, Len(sorted) - 1), m), sorted[Len(sorted)])

RECURSIVE SortByTime(_)
SortByTime(seq) ==
    IF seq = <<>> THEN <<>>
    ELSE InsertByTime(SortByTime(SubSeq(seq, 1, Len(seq) - 1)), seq[Len(seq)])

MapSeq(seq, F(_)) == [i \in 1..Len(seq) |-> F(seq[i])]

(***************************************************************************)
(* Marker/loop engine                                                      *)
(***************************************************************************)
MarkerTime(ls, id) == FindId(ls.markers, id).time

\* addMarker: the cap test
MarkerCapReachedOffByOne(ls) == Len(ls.markers) > MarkerCap
MarkerCapReached(ls) == Len(ls.markers) >= MarkerCap

\* Math.max(0, Math.min(time, playbackState.duration))
ClampTimeAtZeroOnly(time, duration) == Max(0, time)
ClampTime(time, duration) == Max(0, Min(time, duration))

OpAddMarker(s, time) ==
    IF MarkerCapReached(s.loopState) THEN s
    ELSE LET id == s.nextId.marker + 1
             newMarker == [id |-> id, time |-> ClampTime(time, s.playbackState.duration)]
         IN [s EXCEPT !.loopState.markers = SortByTime(Append(@, newMarker)),
                      !.nextId.marker = id]

\* removeMarker: loops that survive the removal of marker id
RemainingLoopsStartOnly(loops, id) == SelectSeq(loops, LAMBDA l : l.startMarkerId # id)
RemainingLoops(loops, id) ==
    SelectSeq(loops, LAMBDA l : l.startMarkerId # id /\ l.endMarkerId # id)

OpRemoveMarker(s, id) ==
    LET ls == s.loopState
        loopsToRemove == SelectSeq(ls.loops, LAMBDA l : l.startMarkerId = id \/ l.endMarkerId = id)
    IN [s EXCEPT !.loopState =
            [ls EXCEPT !.markers = SelectSeq(ls.markers, LAMBDA m : m.id # id),
                       !.loops = RemainingLoops(ls.loops, id),
                       !.activeLoopId = IF HasId(loopsToRemove, ls.activeLoopId)
                                        THEN NULL ELSE ls.activeLoopId]]

\* updateMarkerTime: the marker gets the clamped time, then the list is re-sorted;
\* an id that names no marker changes no time
OpUpdateMarkerTime(s, id, time) ==
    LET ls == s.loopState
        newMarkers == SortByTime(MapSeq(ls.markers, LAMBDA m :
                          IF m.id = id
                          THEN [m EXCEPT !.time = ClampTime(time, s.playbackState.duration)]
                          ELSE m))
    IN [s EXCEPT !.loopState = [ls EXCEPT !.markers = newMarkers]]

\* createLoop: "Ensure start < end" -- the pair <<start, end>> of marker ids
OrderedPair(ls, startMarkerId, endMarkerId) ==
    IF MarkerTime(ls, startMarkerId) < MarkerTime(ls, endMarkerId)
    THEN <<startMarkerId, endMarkerId>>
    ELSE <<endMarkerId, startMarkerId>>

\* createLoop: loopState.loops.length >= 10
LoopCapReachedOffByOne(ls) == Len(ls.loops) > LoopCap
LoopCapReached(ls) == Len(ls.loops) >= LoopCap

OpCreateLoop(s, startMarkerId, endMarkerId) ==
    LET ls == s.loopState IN
    IF LoopCapReached(ls) THEN s
    ELSE IF ~HasId(ls.markers, startMarkerId) \/ ~HasId(ls.markers, endMarkerId) THEN s
    ELSE LET pair == OrderedPair(ls, startMarkerId, endMarkerId)
             id == s.nextId.loop + 1
             newLoop == [id |-> id, startMarkerId |-> pair[1], endMarkerId |-> pair[2],
                         enabled |-> FALSE]
         IN [s EXCEPT !.loopState.loops = Append(@, newLoop), !.nextId.loop = id]

\* Array.prototype.findIndex(m => m.id === id): -1 when there is none
FindIndexOfId(seq, id) ==
    IF HasId(seq, id)
    THEN CHOOSE i \in 1..Len(seq) : seq[i].id = id /\ \A j \in 1..(i-1) : seq[j].id # id
    ELSE 0 - 1

\* MarkersPanel.handleLoopEndpoint, second click on another marker: the pair
\* is put in the order of the markers sorted by time, and createLoop is called
\* unless a loop on that very pair exists
OpLoopEndpoint(s, loopStartMarker, markerId) ==
    LET ls == s.loopState
        markers == SortByTime(ls.markers)
        startIdx == FindIndexOfId(markers, loopStartMarker)
        endIdx == FindIndexOfId(markers, markerId)
        pair == IF startIdx < endIdx THEN <<loopStartMarker, markerId>>
                ELSE <<markerId, loopStartMarker>>
        existingLoop == \E i \in 1..Len(ls.loops) :
                            /\ ls.loops[i].startMarkerId = pair[1]
                            /\ ls.loops[i].endMarkerId = pair[2]
    IN IF existingLoop THEN s ELSE OpCreateLoop(s, pair[1], pair[2])

OpRemoveLoop(s, id) ==
    LET ls == s.loopState IN
    [s EXCEPT !.loopState =
        [ls EXCEPT !.loops = SelectSeq(ls.loops, LAMBDA l : l.id # id),
                   !.activeLoopId = IF ls.activeLoopId = id THEN NULL ELSE ls.activeLoopId]]

(***************************************************************************)
(* Transport: seek                                                         *)
(***************************************************************************)
\* seek: "Check if seeking inside the active loop (if any)"
SeekingInsideFromOldPosition(s, time) ==
    LET ls == s.loopState IN
    /\ ~s.preserve
    /\ ls.activeLoopId # NULL
    /\ HasId(ls.loops, ls.activeLoopId)
    /\ LET activeLoop == FindId(ls.loops, ls.activeLoopId) IN
       /\ HasId(ls.markers, activeLoop.startMarkerId)
       /\ HasId(ls.markers, activeLoop.endMarkerId)
       /\ s.playbackState.currentTime >= MarkerTime(ls, activeLoop.startMarkerId)
       /\ s.playbackState.currentTime <= MarkerTime(ls, activeLoop.endMarkerId)

SeekingInsideActiveLoop(s, time) ==
    LET ls == s.loopState IN
    /\ ~s.preserve
    /\ ls.activeLoopId # NULL
    /\ HasId(ls.loops, ls.activeLoopId)
    /\ LET activeLoop == FindId(ls.loops, ls.activeLoopId) IN
       /\ HasId(ls.markers, activeLoop.startMarkerId)
       /\ HasId(ls.markers, activeLoop.endMarkerId)
       /\ time >= MarkerTime(ls, activeLoop.startMarkerId)
       /\ time <= MarkerTime(ls, activeLoop.endMarkerId)

DisableAllLoops(loops) == MapSeq(loops, LAMBDA l : [l EXCEPT !.enabled = FALSE])

\* seek: the adapters ws.setTime(time) is called on (every registered one)
SeekTargetsUnfinished(s) == {s.ws[i].id : i \in 1..Len(s.ws)} \ s.finished
SeekTargets(s) == {s.ws[i].id : i \in 1..Len(s.ws)}

\* seek: finishedInstances.has(id) && time < duration
ReenabledUpToEnd(finished, w, time) == w.id \in finished /\ time <= w.duration
Reenabled(finished, w, time) == w.id \in finished /\ time < w.duration

OpSeek(s, time) ==
    LET preserveLoop == s.preserve
        seekingInsideActiveLoop == SeekingInsideActiveLoop(s, time)
        ls == s.loopState
        disable == ~preserveLoop /\ ~seekingInsideActiveLoop /\ ls.activeLoopId # NULL
        isCurrentlyPlaying == s.playbackState.isPlaying
        replayed == SelectSeq(s.ws, LAMBDA w :
                        isCurrentlyPlaying /\ Reenabled(s.finished, w, time))
    IN [s EXCEPT
          !.playbackState.currentTime = time,
          !.preserve = FALSE,
          !.loopState = IF disable
                        THEN [ls EXCEPT !.activeLoopId = NULL, !.loops = DisableAllLoops(ls.loops)]
                        ELSE ls,
          !.isSynchronizing = TRUE,
          !.syncTimers = @ + 1,
          !.ws = MapSeq(s.ws, LAMBDA w :
                    [w EXCEPT !.time = IF w.id \in SeekTargets(s) THEN time ELSE @,
                              !.playing = IF Reenabled(s.finished, w, time) /\ isCurrentlyPlaying
                                          THEN TRUE ELSE @]),
          !.finished = {id \in @ : ~(HasId(s.ws, id)
                                      /\ Reenabled(s.finished, FindId(s.ws, id), time))},
          !.seekCalls = Append(@, time),
          !.playCalls = @ \o MapSeq(replayed, LAMBDA w : w.id)]

\* toggleLoopById: the new loops array
ToggledLoopsKeepOthers(loops, id, newEnabled) ==
    MapSeq(loops, LAMBDA l : IF l.id = id THEN [l EXCEPT !.enabled = newEnabled] ELSE l)
ToggledLoops(loops, id, newEnabled) ==
    MapSeq(loops, LAMBDA l : IF l.id = id THEN [l EXCEPT !.enabled = newEnabled]
                                          ELSE [l EXCEPT !.enabled = FALSE])

OpToggleLoopById(s, id) ==
    LET ls == s.loopState IN
    IF ~HasId(ls.loops, id) THEN s
    ELSE LET loop == FindId(ls.loops, id)
             newEnabled == ~loop.enabled
             s1 == [s EXCEPT !.loopState =
                       [ls EXCEPT !.loops = ToggledLoops(ls.loops, id, newEnabled),
                                  !.activeLoopId = IF newEnabled THEN id ELSE NULL]]
         IN IF newEnabled /\ HasId(ls.markers, loop.startMarkerId)
            THEN OpSeek(s1, MarkerTime(ls, loop.startMarkerId))
            ELSE s1

\* setActiveLoop: _preserveLoopOnNextSeek: id !== null
PreserveFlagNever(id) == FALSE
PreserveFlag(id) == id # NULL

OpSetActiveLoop(s, id) ==
    LET ls == s.loopState IN
    [s EXCEPT !.loopState =
                 [ls EXCEPT !.loops = MapSeq(ls.loops, LAMBDA l : [l EXCEPT !.enabled = (l.id = id)]),
                            !.activeLoopId = id],
              !.preserve = PreserveFlag(id)]

(***************************************************************************)
(* Recording arm state and transport play / pause                          *)
(***************************************************************************)
FirstWhere(seq, P(_)) == seq[CHOOSE i \in 1..Len(seq) : P(seq[i]) /\ \A j \in 1..(i-1) : ~P(seq[j])]
Some(seq, P(_)) == \E i \in 1..Len(seq) : P(seq[i])

\* toggleRecordArm, disarming: { ...loopState, activeLoopId: loopBackup.activeLoopId }
DisarmedLoopStateStaysOff(ls, backup) == ls
DisarmedLoopState(ls, backup) == [ls EXCEPT !.activeLoopId = backup]

\* toggleRecordArm, "exclusive arm": isArmed: t.id === trackId ? newArmedState : false
ExclusiveArmKeepsOthers(t, trackId, newArmedState) ==
    IF t.id = trackId THEN newArmedState ELSE t.isArmed
ExclusiveArm(t, trackId, newArmedState) ==
    IF t.id = trackId THEN newArmedState ELSE FALSE

OpToggleRecordArm(s, trackId) ==
    IF ~HasId(s.tracks, trackId) \/ ~FindId(s.tracks, trackId).isRecordable THEN s
    ELSE LET ls == s.loopState
             track == FindId(s.tracks, trackId)
             newArmedState == ~track.isArmed
             \* If arming, save and disable loop
             s1 == IF newArmedState /\ ls.activeLoopId # NULL
                   THEN [s EXCEPT !.loopBackup = ls.activeLoopId,
                                  !.loopState = [ls EXCEPT !.activeLoopId = NULL]]
                   ELSE s
             \* If disarming, restore loop (from the loopState read at entry)
             s2 == IF ~newArmedState /\ s1.loopBackup # NULL
                   THEN [s1 EXCEPT !.loopState = DisarmedLoopState(ls, s1.loopBackup),
                                   !.loopBackup = NULL]
                   ELSE s1
         IN [s2 EXCEPT !.tracks = MapSeq(s.tracks, LAMBDA t :
                 [t EXCEPT !.isArmed = ExclusiveArm(t, trackId, newArmedState),
                           !.recordingState = IF t.id = trackId /\ newArmedState
                                              THEN "armed" ELSE "idle"])]

OpStartRecording(s, trackId) ==
    IF ~HasId(s.tracks, trackId) \/ ~FindId(s.tracks, trackId).isArmed THEN s
    ELSE LET recordingStartOffset == IF Len(s.ws) > 0 THEN s.ws[1].time
                                     ELSE s.playbackState.currentTime
         IN [s EXCEPT !.recordingStartTime = recordingStartOffset,
                      !.tracks = MapSeq(s.tracks, LAMBDA t :
                          IF t.id = trackId
                          THEN [t EXCEPT !.recordingState = "recording",
                                         !.recordingStartOffset = recordingStartOffset]
                          ELSE t)]

OpStopRecording(s, trackId) ==
    [s EXCEPT !.tracks = MapSeq(s.tracks, LAMBDA t :
                  IF t.id = trackId THEN [t EXCEPT !.recordingState = "stopped"] ELSE t),
              !.recordingStartTime = NULL]

\* play: currentTime >= duration, the adapter is skipped and marked finished
AtEndStrictly(w) == w.time > w.duration
AtEnd(w) == w.time >= w.duration

\* play: the adapters ws.play() is called on, in registry order; every
\* rejection is caught by its own .catch, so the map goes through all of them
PlayIssuedUntilRejection(instances, rejected) ==
    LET ids == MapSeq(SelectSeq(instances, LAMBDA w : ~AtEnd(w)), LAMBDA w : w.id)
        firstRejected == IF \E i \in 1..Len(ids) : ids[i] \in rejected
                         THEN CHOOSE i \in 1..Len(ids) :
                                  ids[i] \in rejected /\ \A j \in 1..(i-1) : ids[j] \notin rejected
                         ELSE Len(ids)
    IN SubSeq(ids, 1, firstRejected)
PlayIssuedTo(instances, rejected) ==
    MapSeq(SelectSeq(instances, LAMBDA w : ~AtEnd(w)), LAMBDA w : w.id)

\* rejected: the adapters whose play() promise rejects (autoplay policy ...)
OpPlay(s, rejected) ==
    LET Armed(t) == t.isArmed /\ t.isRecordable
        s1 == IF Some(s.tracks, Armed)
              THEN OpStartRecording(s, FirstWhere(s.tracks, Armed).id)
              ELSE s
        issued == PlayIssuedTo(s1.ws, rejected)
        Issued(w) == \E i \in 1..Len(issued) : issued[i] = w.id
    IN [s1 EXCEPT !.finished = {s1.ws[i].id : i \in {j \in 1..Len(s1.ws) : AtEnd(s1.ws[j])}},
                  !.ws = MapSeq(s1.ws, LAMBDA w :
                             IF Issued(w) /\ w.id \notin rejected
                             THEN [w EXCEPT !.playing = TRUE] ELSE w),
                  !.playCalls = @ \o issued,
                  !.playbackState.isPlaying = TRUE]

OpPause(s) ==
    LET Recording(t) == t.recordingState = "recording"
        IsArmed(t) == t.isArmed
        \* both lookups use the tracks array read at entry
        s1 == IF Some(s.tracks, Recording)
              THEN OpStopRecording(s, FirstWhere(s.tracks, Recording).id)
              ELSE s
        s2 == IF Some(s.tracks, IsArmed)
              THEN OpToggleRecordArm(s1, FirstWhere(s.tracks, IsArmed).id)
              ELSE s1
    IN [s2 EXCEPT !.ws = MapSeq(s2.ws, LAMBDA w : [w EXCEPT !.playing = FALSE]),
                  !.playbackState.isPlaying = FALSE]

(***************************************************************************)
(* Recording: saveRecording, clearRecording and the RecordableWaveform     *)
(* component with its capture engine (the record plugin)                   *)
(***************************************************************************)
\* saveRecording, at its last set(): the store writes happen after the awaits,
\* on the tracks array of that moment
OpSaveRecordingCompletes(s, trackId) ==
    [s EXCEPT !.tracks = MapSeq(s.tracks, LAMBDA t :
                  IF t.id = trackId
                  THEN [t EXCEPT !.hasFile = TRUE, !.recordingState = "stopped"]
                  ELSE t),
              !.recorders[trackId].saving = FALSE]

\* clearRecording: the guard is taken at entry, the set() after the awaits
OpClearRecording(s, trackId) ==
    IF ~HasId(s.tracks, trackId) \/ ~FindId(s.tracks, trackId).isRecordable THEN s
    ELSE [s EXCEPT !.tracks = MapSeq(s.tracks, LAMBDA t :
                       IF t.id = trackId
                       THEN [t EXCEPT !.hasFile = FALSE, !.recordingState = "idle"]
                       ELSE t)]

\* x || 0
OrZero(x) == IF x = NULL THEN 0 ELSE x

\* record-end: expectedStartTime + latency / 2.  The result is counted in
\* halves of the unit of its arguments, so that the half is not lost.
CompensatedOffsetFullLatency(expectedStartTime, actualStartTime) ==
    LET latency == actualStartTime - expectedStartTime
    IN 2 * expectedStartTime + 2 * latency
CompensatedOffset(expectedStartTime, actualStartTime) ==
    LET latency == actualStartTime - expectedStartTime
    IN 2 * expectedStartTime + latency

\* the component is rendered for a recordable track that has no file yet
RecorderMounted(track) == track.isRecordable /\ ~track.hasFile

\* the dependencies of the component's effect, as the store has them now
RecorderDeps(s, trackId) ==
    IF HasId(s.tracks, trackId) /\ RecorderMounted(FindId(s.tracks, trackId))
    THEN LET track == FindId(s.tracks, trackId)
         IN <<track.isArmed, track.recordingState, s.playbackState.isPlaying>>
    ELSE <<>>

\* the effect [track.isArmed, track.recordingState, playbackState.isPlaying]:
\* the cleanup of the previous run stops a running capture and destroys the
\* plugin; the new run returns early unless the track is armed, else creates a
\* plugin whose handlers close over this render's track, and starts the capture
\* when the track is recording and the transport plays
OpRecorderEffect(s, trackId) ==
    LET r == s.recorders[trackId]
        deps == RecorderDeps(s, trackId)
        cleaned == IF r.plugin /\ r.capturing
                   THEN [r EXCEPT !.capturing = FALSE, !.ending = TRUE,
                                  !.endingExpected = r.expected,
                                  !.plugin = FALSE, !.starting = FALSE]
                   ELSE [r EXCEPT !.plugin = FALSE, !.starting = FALSE]
        track == FindId(s.tracks, trackId)
    IN [s EXCEPT !.recorders[trackId] =
            IF deps = <<>> \/ ~track.isArmed
            THEN [cleaned EXCEPT !.deps = deps, !.expected = NULL]
            ELSE [cleaned EXCEPT !.deps = deps, !.plugin = TRUE,
                                 !.expected = track.recordingStartOffset,
                                 !.starting = (track.recordingState = "recording"
                                               /\ s.playbackState.isPlaying)]]

\* record-start: the time of the first registered adapter, else the closure's
\* track.recordingStartOffset || 0
OpRecordStart(s, trackId) ==
    LET r == s.recorders[trackId]
        actualStartTime == IF Len(s.ws) > 0 THEN s.ws[1].time ELSE OrZero(r.expected)
    IN [s EXCEPT !.recorders[trackId] =
            [r EXCEPT !.starting = FALSE, !.capturing = TRUE,
                      !.actualStartTime = actualStartTime]]

\* record.startRecording(...).catch: alert, then stopRecording(track.id)
OpCaptureFails(s, trackId) ==
    LET s1 == OpStopRecording(s, trackId)
    IN [s1 EXCEPT !.recorders[trackId].starting = FALSE]

\* a frame of silence, and the frame mixed from the given captured channels
Silence == [channels |-> {}, index |-> 0 - 1]
Frame(channels, index) == [channels |-> channels, index |-> index]

\* addSilencePadding: compensatedOffset > 0 ? Math.floor(compensatedOffset *
\* sampleRate) : 0, the offset in halves of a tick, the rate in frames per tick
PaddingSamples(offset, sampleRate) ==
    IF offset > 0 THEN (offset * sampleRate) \div 2 ELSE 0

\* addSilencePadding on the decoded (and normalized: same channels, length and
\* rate) buffer: a two-channel buffer of paddingSamples zeros followed by the
\* captured frames; one channel goes to both sides, of two channels the left
\* goes to both sides, more channels are mixed even to left and odd to right
AddSilencePadding(audioBuffer, offset) ==
    LET paddingSamples == PaddingSamples(offset, audioBuffer.sampleRate)
        totalSamples == paddingSamples + audioBuffer.length
        all == 0..(audioBuffer.numberOfChannels - 1)
        leftFrom == IF audioBuffer.numberOfChannels <= 2 THEN {0}
                    ELSE {ch \in all : ch % 2 = 0}
        rightFrom == IF audioBuffer.numberOfChannels <= 2 THEN {0}
                     ELSE {ch \in all : ch % 2 # 0}
    IN [numberOfChannels |-> 2, sampleRate |-> audioBuffer.sampleRate,
        left |-> [i \in 1..totalSamples |->
                     IF i <= paddingSamples THEN Silence
                     ELSE Frame(leftFrom, i - paddingSamples - 1)],
        right |-> [i \in 1..totalSamples |->
                     IF i <= paddingSamples THEN Silence
                     ELSE Frame(rightFrom, i - paddingSamples - 1)]]

\* record-end: pads the blob by the compensated offset, then calls saveRecording
OpRecordEnd(s, trackId, audioBuffer) ==
    LET r == s.recorders[trackId]
        expectedStartTime == OrZero(r.endingExpected)
        actualStartTime == r.actualStartTime
        compensatedOffset == CompensatedOffset(expectedStartTime, actualStartTime)
    IN [s EXCEPT !.recorders[trackId] =
            [r EXCEPT !.ending = FALSE, !.endingExpected = NULL,
                      !.compensatedOffset = compensatedOffset,
                      !.paddedBuffer = AddSilencePadding(audioBuffer, compensatedOffset),
                      !.saving = TRUE]]

(***************************************************************************)
(* Tracks and adapters                                                     *)
(***************************************************************************)
NewTrack(id, recordable) ==
    [id |-> id, hasFile |-> ~recordable, isMuted |-> FALSE, isSolo |-> FALSE,
     isRecordable |-> recordable, isArmed |-> FALSE, recordingState |-> "idle",
     recordingStartOffset |-> NULL]

\* addTrack with a current piece: pause(), seek(0), then the tracks array read
\* at entry plus the new track
OpAddTrack(s) ==
    IF Len(s.tracks) >= TrackCap THEN s
    ELSE LET id == s.nextId.track + 1
             s1 == OpSeek(OpPause(s), 0)
         IN [s1 EXCEPT !.tracks = Append(s.tracks, NewTrack(id, FALSE)), !.nextId.track = id]

\* addTrack up to its first await: with a current piece it runs on to
\* set({ tracks }); without one it waits in `await createPiece(...)` holding
\* the tracks array it read at entry
OpAddTrackCall(s) ==
    IF Len(s.tracks) >= TrackCap THEN s
    ELSE IF s.currentPieceId # NULL THEN OpAddTrack(s)
    ELSE [s EXCEPT !.addTrackCalls = Append(@, s.tracks)]

\* createPiece saves a new piece and sets currentPieceId; the addTrack call
\* that awaited it goes on: pause(), seek(0), set({ tracks: [...tracks, newTrack] })
\* with the tracks read at entry
OpAddTrackResumes(s, call) ==
    LET tracksAtEntry == s.addTrackCalls[call]
        pieceId == Cardinality(s.pieces) + 1
        id == s.nextId.track + 1
        s1 == [s EXCEPT !.pieces = @ \cup {pieceId}, !.currentPieceId = pieceId]
        s2 == OpSeek(OpPause(s1), 0)
    IN [s2 EXCEPT !.tracks = Append(tracksAtEntry, NewTrack(id, FALSE)),
                  !.nextId.track = id,
                  !.addTrackCalls = SubSeq(@, 1, call - 1) \o SubSeq(@, call + 1, Len(@))]

\* FileUploader.handleDrop: files.forEach(file => { if (tracks.length < 8)
\* addTrack(file) }), tracks being those of the render
RECURSIVE OpHandleDrop(_, _, _)
OpHandleDrop(s, files, renderedTracks) ==
    IF files = 0 THEN s
    ELSE OpHandleDrop(IF Len(renderedTracks) < TrackCap THEN OpAddTrackCall(s) ELSE s,
                      files - 1, renderedTracks)

\* addRecordableTrack with a current piece: pause(), no seek
OpAddRecordableTrack(s) ==
    IF Len(s.tracks) >= TrackCap THEN s
    ELSE LET id == s.nextId.track + 1
             s1 == OpPause(s)
         IN [s1 EXCEPT !.tracks = Append(s.tracks, NewTrack(id, TRUE)), !.nextId.track = id]

\* WaveformDisplay effect: WaveSurfer.create + registerWavesurfer; the handlers
\* installed by the effect close over the track object of this render
OpRegisterWavesurfer(s, trackId) ==
    LET track == FindId(s.tracks, trackId)
        instance == [id |-> trackId, time |-> 0, duration |-> 0, muted |-> FALSE,
                     playing |-> FALSE, ready |-> FALSE,
                     trackIsMuted |-> track.isMuted, trackIsSolo |-> track.isSolo]
    IN [s EXCEPT !.ws = Append(@, instance), !.finished = @ \ {trackId}]

\* Solo/mute resolution as every call site computes it
ShouldBeMuted(isMuted, isSolo, hasSoloedTracks) == isMuted \/ (hasSoloedTracks /\ ~isSolo)
HasSoloedTracks(trks) == Some(trks, LAMBDA t : t.isSolo)

\* wavesurfer.on('ready'): duration, then the initial mute from the closed-over track
OpReady(s, trackId, duration) ==
    [s EXCEPT !.playbackState.duration = IF duration > @ THEN duration ELSE @,
              !.ws = MapSeq(s.ws, LAMBDA w :
                  IF w.id = trackId
                  THEN [w EXCEPT !.ready = TRUE, !.duration = duration,
                                 !.muted = ShouldBeMuted(w.trackIsMuted, w.trackIsSolo,
                                                         HasSoloedTracks(s.tracks)),
                                 !.trackIsMuted = FALSE, !.trackIsSolo = FALSE]
                  ELSE w)]

\* effect cleanup: unregisterWavesurfer
OpUnregisterWavesurfer(s, trackId) ==
    [s EXCEPT !.ws = SelectSeq(@, LAMBDA w : w.id # trackId), !.finished = @ \ {trackId}]

(***************************************************************************)
(* Mute / solo                                                             *)
(***************************************************************************)
\* ws.setMuted on the instance of one track, when it is registered
SetMuted(instances, trackId, muted) ==
    MapSeq(instances, LAMBDA w : IF w.id = trackId THEN [w EXCEPT !.muted = muted] ELSE w)

OpToggleMute(s, id) ==
    IF ~HasId(s.tracks, id) THEN s
    ELSE LET track == FindId(s.tracks, id)
             newMutedState == ~track.isMuted
             allTracks == MapSeq(s.tracks, LAMBDA t :
                              IF t.id = id THEN [t EXCEPT !.isMuted = newMutedState] ELSE t)
         IN [s EXCEPT !.tracks = allTracks,
                      !.ws = SetMuted(@, id, ShouldBeMuted(newMutedState, track.isSolo,
                                                           HasSoloedTracks(allTracks)))]

\* the mute every instance gets from a tracks array: instances of tracks
\* that are not in the array are left alone
ApplyMutes(instances, trks, Muted(_)) ==
    MapSeq(instances, LAMBDA w :
        IF HasId(trks, w.id) THEN [w EXCEPT !.muted = Muted(FindId(trks, w.id))] ELSE w)

OpToggleSolo(s, id) ==
    IF ~HasId(s.tracks, id) THEN s
    ELSE LET newSoloState == ~FindId(s.tracks, id).isSolo
             allTracks == MapSeq(s.tracks, LAMBDA t :
                              IF t.id = id THEN [t EXCEPT !.isSolo = newSoloState] ELSE t)
             hasSoloedTracks == HasSoloedTracks(allTracks)
         IN [s EXCEPT !.tracks = allTracks,
                      !.ws = ApplyMutes(@, allTracks,
                                 LAMBDA t : ShouldBeMuted(t.isMuted, t.isSolo, hasSoloedTracks))]

OpExclusiveSolo(s, id) ==
    LET newTracks == MapSeq(s.tracks, LAMBDA t : [t EXCEPT !.isSolo = (t.id = id)])
    IN [s EXCEPT !.tracks = newTracks,
                 !.ws = ApplyMutes(@, newTracks, LAMBDA t : t.isMuted \/ t.id # id)]

OpUnmuteAll(s) ==
    LET newTracks == MapSeq(s.tracks, LAMBDA t : [t EXCEPT !.isMuted = FALSE])
        hasSoloedTracks == HasSoloedTracks(newTracks)
    IN [s EXCEPT !.tracks = newTracks,
                 !.ws = ApplyMutes(@, newTracks, LAMBDA t : hasSoloedTracks /\ ~t.isSolo)]

(***************************************************************************)
(* wavesurfer.on('timeupdate'): throttle, time tracker, loop boundary      *)
(***************************************************************************)
\* the boundary test: currentTime >= endMarker.time
LoopEndReachedStrictly(currentTime, endTime) == currentTime > endTime
LoopEndReached(currentTime, endTime) == currentTime >= endTime

\* setPlaybackTime: the module-level currentTime of usePlaybackTime, outside the store
SetPlaybackTimeInStore(s, time) ==
    [s EXCEPT !.playbackTime = time, !.playbackState.currentTime = time]
SetPlaybackTime(s, time) == [s EXCEPT !.playbackTime = time]

\* elapsed is now - lastTimeUpdate.  Without an active loop the handler falls
\* back to the legacy loopRegion, which this store does not hold: no seek.
OpTimeUpdate(s, currentTime, elapsed) ==
    IF ~(elapsed > ThrottleMs) THEN s
    ELSE LET s1 == SetPlaybackTime(s, currentTime)
             ls == s.loopState
         IN IF ls.activeLoopId # NULL /\ HasId(ls.loops, ls.activeLoopId)
            THEN LET activeLoop == FindId(ls.loops, ls.activeLoopId) IN
                 IF /\ activeLoop.enabled
                    /\ HasId(ls.markers, activeLoop.startMarkerId)
                    /\ HasId(ls.markers, activeLoop.endMarkerId)
                    /\ LoopEndReached(currentTime, MarkerTime(ls, activeLoop.endMarkerId))
                 THEN OpSeek(s1, MarkerTime(ls, activeLoop.startMarkerId))
                 ELSE s1
            ELSE s1

(***************************************************************************)
(* Edit-mode pointer gestures on the timeline                              *)
(***************************************************************************)
Abs(x) == IF x < 0 THEN 0 - x ELSE x

\* findMarkerAtTime: Math.abs(m.time - time) < duration * 0.02
OnMarker(ls, time, duration) ==
    \E i \in 1..Len(ls.markers) : 50 * Abs(ls.markers[i].time - time) < duration
MarkerAtTime(ls, time, duration) ==
    FirstWhere(ls.markers, LAMBDA m : 50 * Abs(m.time - time) < duration).id

\* distance < 0.5 (seconds)
IsShortGestureInclusive(distance) == 2 * distance <= TicksPerSecond
IsShortGesture(distance) == 2 * distance < TicksPerSecond

\* the id addMarker returned: the id minted between the two states, or '' (NULL)
ReturnedMarkerId(before, after) ==
    IF after.nextId.marker # before.nextId.marker THEN after.nextId.marker ELSE NULL

\* editLayer pointerdown .. pointerup in shadowDomLoopRenderer
OpEditLayerGesture(s, dragStartTime, endTime) ==
    LET duration == s.playbackState.duration
        distance == Abs(endTime - dragStartTime)
    IN IF OnMarker(s.loopState, dragStartTime, duration)
       THEN OpUpdateMarkerTime(s, MarkerAtTime(s.loopState, dragStartTime, duration), endTime)
       ELSE IF IsShortGesture(distance) THEN OpAddMarker(s, dragStartTime)
       ELSE LET s1 == OpAddMarker(s, Min(dragStartTime, endTime))
                s2 == OpAddMarker(s1, Max(dragStartTime, endTime))
            IN OpCreateLoop(s2, ReturnedMarkerId(s, s1), ReturnedMarkerId(s1, s2))

\* handleMouseDown .. handleMouseUp in LoopEditorOverlay
OpOverlayGesture(s, dragStart, endTime) ==
    LET distance == Abs(endTime - dragStart)
    IN IF IsShortGesture(distance) THEN OpAddMarker(s, dragStart)
       ELSE LET s1 == OpAddMarker(s, Min(dragStart, endTime))
                s2 == OpAddMarker(s1, Max(dragStart, endTime))
                startMarkerId == ReturnedMarkerId(s, s1)
                endMarkerId == ReturnedMarkerId(s1, s2)
            IN IF startMarkerId # NULL /\ endMarkerId # NULL
               THEN OpCreateLoop(s2, startMarkerId, endMarkerId)
               ELSE s2

OpToggleLoopEditMode(s) == [s EXCEPT !.loopState.editMode = ~@]

\* wavesurfer.on('click'): if (loopState.editMode) return
ClickIgnoredNever(ls) == FALSE
ClickIgnored(ls) == ls.editMode

\* wavesurfer.on('click') of WaveformDisplay; time: progress * getDuration()
OpWaveformClick(s, time) ==
    IF ClickIgnored(s.loopState) THEN s
    ELSE LET s1 == IF s.loopState.activeLoopId # NULL THEN OpSetActiveLoop(s, NULL) ELSE s
         IN OpSeek(s1, time)

\* click on a loop zone injected by injectMarkersAndLoops; time: startMarker.time
\* of the render that made the zone
OpLoopZoneClick(s, loopId, time, rejected) ==
    OpPlay(OpSeek(OpSetActiveLoop(s, loopId), time), rejected)

(***************************************************************************)
(* Adapter clock and the finish report                                     *)
(***************************************************************************)
\* markTrackFinished: wavesurferInstances.size > 0 &&
\* finishedInstances.size === wavesurferInstances.size
AllFinishedWhenAny(finished, instances) == Len(instances) > 0 /\ Cardinality(finished) >= 1
AllFinished(finished, instances) ==
    Len(instances) > 0 /\ Cardinality(finished) = Len(instances)

OpMarkTrackFinished(s, trackId) ==
    LET s1 == [s EXCEPT !.finished = @ \cup {trackId}]
    IN IF AllFinished(s1.finished, s1.ws)
       THEN [OpSeek(OpPause(s1), 0) EXCEPT !.finished = {}]
       ELSE s1

\* the adapter plays on by one time unit and emits timeupdate with its position
OpAdvance(s, trackId) ==
    LET position == FindId(s.ws, trackId).time + 1
        s1 == [s EXCEPT !.ws = MapSeq(s.ws, LAMBDA w :
                                  IF w.id = trackId THEN [w EXCEPT !.time = position] ELSE w)]
    IN OpTimeUpdate(s1, position, ThrottleMs + 1)

\* the adapter reaches its end, stops and emits finish
OpFinish(s, trackId) ==
    OpMarkTrackFinished(
        [s EXCEPT !.ws = MapSeq(s.ws, LAMBDA w :
                             IF w.id = trackId THEN [w EXCEPT !.playing = FALSE] ELSE w)],
        trackId)

(***************************************************************************)
(* Actions                                                                 *)
(***************************************************************************)
TrackIdSet == 1..nextId.track
MarkerIds == 1..MaxMarkerIds
LoopIds == 1..MaxLoopIds
Registered(id) == HasId(wavesurferInstances, id)
MaySeek == syncTimers < MaxTimers      \* bounds the pending timers
Count(seq, P(_)) == Cardinality({i \in 1..Len(seq) : P(seq[i])})

\* budget: how many audio tracks the specification adds
AddTrack(budget) ==
    /\ Count(tracks, LAMBDA t : ~t.isRecordable) < budget /\ MaySeek
    /\ Commit(OpAddTrack(St))

\* files audio files are dropped on the uploader
HandleDrop(files) ==
    /\ nextId.track + Len(addTrackCalls) + files <= MaxDroppedFiles + 1
    /\ MaySeek
    /\ Commit(OpHandleDrop(St, files, tracks))

AddTrackResumes(call) ==
    /\ call \in 1..Len(addTrackCalls)
    /\ MaySeek
    /\ Commit(OpAddTrackResumes(St, call))

AddRecordableTrack(budget) ==
    /\ Count(tracks, LAMBDA t : t.isRecordable) < budget
    /\ Commit(OpAddRecordableTrack(St))

RegisterWavesurfer(id) ==
    /\ HasId(tracks, id) /\ FindId(tracks, id).hasFile /\ ~Registered(id)
    /\ Commit(OpRegisterWavesurfer(St, id))

UnregisterWavesurfer(id) ==
    /\ Registered(id)
    /\ Commit(OpUnregisterWavesurfer(St, id))

Ready(id, duration) ==
    /\ Registered(id) /\ ~FindId(wavesurferInstances, id).ready
    /\ Commit(OpReady(St, id, duration))

\* budget: how many marker ids the specification mints
AddMarker(budget, time) ==
    /\ nextId.marker < budget
    /\ Commit(OpAddMarker(St, time))

RemoveMarker(id) == Commit(OpRemoveMarker(St, id))

UpdateMarkerTime(id, time) == Commit(OpUpdateMarkerTime(St, id, time))

\* budget: how many loop ids the specification mints
CreateLoop(budget, startMarkerId, endMarkerId) ==
    /\ nextId.loop < budget
    /\ Commit(OpCreateLoop(St, startMarkerId, endMarkerId))

RemoveLoop(id) == Commit(OpRemoveLoop(St, id))

\* the panel lists the markers of LoopState; a second click on the first
\* marker cancels
LoopEndpoint(budget, loopStartMarker, markerId) ==
    /\ nextId.loop < budget
    /\ HasId(loopState.markers, loopStartMarker) /\ HasId(loopState.markers, markerId)
    /\ loopStartMarker # markerId
    /\ Commit(OpLoopEndpoint(St, loopStartMarker, markerId))

ToggleLoopById(id) == MaySeek /\ Commit(OpToggleLoopById(St, id))

SetActiveLoop(id) == Commit(OpSetActiveLoop(St, id))

Seek(time) == MaySeek /\ Commit(OpSeek(St, time))

ToggleRecordArm(trackId) == Commit(OpToggleRecordArm(St, trackId))

\* a seek issued while the timers of earlier seeks are still pending
OverlappingSeek(time) == syncTimers < MaxOverlappingSeeks /\ Commit(OpSeek(St, time))

Play(rejected) == Commit(OpPlay(St, rejected))

Pause == Commit(OpPause(St))

TimeUpdate(id, currentTime, elapsed) ==
    /\ MaySeek
    /\ Registered(id) /\ FindId(wavesurferInstances, id).ready
    /\ currentTime <= FindId(wavesurferInstances, id).duration
    /\ Commit(OpTimeUpdate(St, currentTime, elapsed))

\* setTimeout(() => { isSynchronizing = false }, 50)
SyncTimerFires ==
    /\ syncTimers > 0
    /\ Commit([St EXCEPT !.isSynchronizing = FALSE, !.syncTimers = @ - 1])

ToggleMute(id) == Registered(id) /\ Commit(OpToggleMute(St, id))
ToggleSolo(id) == Registered(id) /\ Commit(OpToggleSolo(St, id))
ExclusiveSolo(id) == Registered(id) /\ Commit(OpExclusiveSolo(St, id))
UnmuteAll == Commit(OpUnmuteAll(St))

Advance(id) ==
    /\ MaySeek
    /\ Registered(id)
    /\ FindId(wavesurferInstances, id).playing
    /\ FindId(wavesurferInstances, id).time < FindId(wavesurferInstances, id).duration
    /\ Commit(OpAdvance(St, id))

Finish(id) ==
    /\ MaySeek
    /\ Registered(id)
    /\ FindId(wavesurferInstances, id).playing
    /\ AtEnd(FindId(wavesurferInstances, id))
    /\ Commit(OpFinish(St, id))

ToggleLoopEditMode == Commit(OpToggleLoopEditMode(St))

\* getTimeFromEvent / pixelToTime: (x / width) * duration.  The pointer goes
\* down on the timeline, in 0..duration; it is captured and may be released
\* past either edge
PointerTimes == (0 - 1)..(MaxTime + 1)
PointerOnTimeline(dragStartTime, endTime) ==
    /\ 0 <= dragStartTime /\ dragStartTime <= playbackState.duration
    /\ IF playbackState.duration = 0 THEN endTime = 0
       ELSE 0 - 1 <= endTime /\ endTime <= playbackState.duration + 1

\* the edit layer exists once the waveform is ready and while editMode is on
EditLayerGesture(budget, dragStartTime, endTime) ==
    /\ loopState.editMode
    /\ \E i \in 1..Len(wavesurferInstances) : wavesurferInstances[i].ready
    /\ nextId.marker < budget
    /\ PointerOnTimeline(dragStartTime, endTime)
    /\ Commit(OpEditLayerGesture(St, dragStartTime, endTime))

OverlayGesture(budget, dragStart, endTime) ==
    /\ loopState.editMode
    /\ nextId.marker < budget
    /\ PointerOnTimeline(dragStart, endTime)
    /\ Commit(OpOverlayGesture(St, dragStart, endTime))

\* the waveform answers clicks once it is drawn; progress is in 0..1
WaveformClick(id, time) ==
    /\ MaySeek
    /\ Registered(id) /\ FindId(wavesurferInstances, id).ready
    /\ 0 <= time /\ time <= FindId(wavesurferInstances, id).duration
    /\ Commit(OpWaveformClick(St, time))

\* a loop zone is drawn for a loop whose two markers exist, takes pointer
\* events and has its click listener only when editMode is off
LoopZoneClick(loopId, rejected) ==
    /\ MaySeek
    /\ \E i \in 1..Len(wavesurferInstances) : wavesurferInstances[i].ready
    /\ playbackState.duration # 0
    /\ ~loopState.editMode
    /\ HasId(loopState.loops, loopId)
    /\ HasId(loopState.markers, FindId(loopState.loops, loopId).startMarkerId)
    /\ HasId(loopState.markers, FindId(loopState.loops, loopId).endMarkerId)
    /\ Commit(OpLoopZoneClick(St, loopId, MarkerTime(loopState, FindId(loopState.loops, loopId).startMarkerId),
                              rejected))

\* React runs the effect after a render in which its dependencies changed
RecorderEffectPending(trackId) == recorders[trackId].deps # RecorderDeps(St, trackId)
RecorderEffect(trackId) ==
    /\ RecorderEffectPending(trackId)
    /\ Commit(OpRecorderEffect(St, trackId))

\* the capture engine signals its start
RecordStart(trackId) ==
    /\ recorders[trackId].starting /\ ~recorders[trackId].ending
    /\ Commit(OpRecordStart(St, trackId))

\* the capture engine refuses to start (permission denied, no device, in use)
CaptureFails(trackId) ==
    /\ recorders[trackId].starting
    /\ Commit(OpCaptureFails(St, trackId))

\* the stopped capture delivers its blob
\* what decodeAudioData can give for a capture
CapturedBuffers ==
    [numberOfChannels : 1..MaxChannels, length : 1..MaxFrames, sampleRate : 1..MaxSampleRate]

ShortMonoBuffers == {b \in CapturedBuffers : b.numberOfChannels * b.length * b.sampleRate = 1}

RecordEnd(trackId, audioBuffer) ==
    /\ recorders[trackId].ending
    /\ Commit(OpRecordEnd(St, trackId, audioBuffer))

SaveRecordingCompletes(trackId) ==
    /\ recorders[trackId].saving
    /\ HasId(tracks, trackId)
    /\ Commit(OpSaveRecordingCompletes(St, trackId))

ClearRecording(trackId) == Commit(OpClearRecording(St, trackId))

\* the store's stopRecording, as the recording component's catch calls it
StopRecording(trackId) == Commit(OpStopRecording(St, trackId))

(***************************************************************************)
(* State functions                                                         *)
(***************************************************************************)
Loops == loopState.loops
Markers == loopState.markers
EnabledLoopIds == {Loops[i].id : i \in {j \in 1..Len(Loops) : Loops[j].enabled}}
EnabledLoopIdsNext == {loopState'.loops[i].id :
                          i \in {j \in 1..Len(loopState'.loops) : loopState'.loops[j].enabled}}
LoopIdsPresent == {Loops[i].id : i \in 1..Len(Loops)}
MarkerIdsPresent == {Markers[i].id : i \in 1..Len(Markers)}

(***************************************************************************)
(* Spec: the marker/loop engine and seek, on one loaded track              *)
(***************************************************************************)
Next ==
    \/ AddTrack(1)
    \/ \E id \in TrackIdSet : RegisterWavesurfer(id)
    \/ \E id \in TrackIdSet, d \in Durations : Ready(id, d)
    \/ \E t \in Times : AddMarker(MaxMarkerIds, t)
    \/ \E id \in MarkerIds : RemoveMarker(id)
    \/ \E a, b \in MarkerIds : a # b /\ CreateLoop(MaxLoopIds, a, b)
    \/ \E id \in LoopIds : RemoveLoop(id)
    \/ \E id \in LoopIds : ToggleLoopById(id)
    \/ \E id \in {loopState.loops[i].id : i \in 1..Len(loopState.loops)} \cup {NULL} : SetActiveLoop(id)
    \/ \E t \in Times : Seek(t)
    \/ SyncTimerFires

Spec == Init /\ [][Next]_vars

(***************************************************************************)
(* SpecArm: the loop engine with a recordable track that is armed and      *)
(* disarmed (no audio track: every marker sits at time 0)                  *)
(***************************************************************************)
NextArm ==
    \/ AddRecordableTrack(1)
    \/ \E t \in Times : AddMarker(MaxMarkerIds - 1, t)
    \/ \E id \in MarkerIds : RemoveMarker(id)
    \/ \E a, b \in MarkerIds : a # b /\ CreateLoop(MaxLoopIds, a, b)
    \/ \E id \in LoopIds : RemoveLoop(id)
    \/ \E id \in LoopIds : ToggleLoopById(id)
    \/ \E id \in {loopState.loops[i].id : i \in 1..Len(loopState.loops)} \cup {NULL} : SetActiveLoop(id)
    \/ \E t \in Times : Seek(t)
    \/ \E id \in TrackIdSet : ToggleRecordArm(id)
    \/ Play({})
    \/ Pause
    \/ SyncTimerFires

SpecArm == Init /\ [][NextArm]_vars

(***************************************************************************)
(* SpecArmMany: two recordable tracks beside an audio track, armed,        *)
(* recorded and stopped through the store                                  *)
(***************************************************************************)
NextArmMany ==
    \/ AddTrack(1)
    \/ AddRecordableTrack(MaxTracks - 1)
    \/ \E id \in TrackIdSet : RegisterWavesurfer(id)
    \/ \E id \in TrackIdSet, d \in Durations : Ready(id, d)
    \/ \E id \in TrackIdSet : ToggleRecordArm(id)
    \/ Play({})
    \/ Pause
    \/ \E id \in TrackIdSet : StopRecording(id)
    \/ \E id \in TrackIdSet : ClearRecording(id)
    \/ SyncTimerFires

SpecArmMany == Init /\ [][NextArmMany]_vars

(***************************************************************************)
(* SpecRepeat: time-updates of a loaded track against the active loop      *)
(***************************************************************************)
NextRepeat ==
    \/ AddTrack(1)
    \/ \E id \in TrackIdSet : RegisterWavesurfer(id)
    \/ \E id \in TrackIdSet, d \in Durations : Ready(id, d)
    \/ \E t \in Times : AddMarker(MaxMarkerIds - 1, t)
    \/ \E a, b \in MarkerIds : CreateLoop(MaxLoopIds - 1, a, b)
    \/ \E id \in LoopIds : ToggleLoopById(id)
    \/ \E id \in LoopIds \cup {NULL} : SetActiveLoop(id)
    \/ \E t \in Times : Seek(t)
    \/ \E id \in TrackIdSet, t \in Times, e \in {ThrottleMs, ThrottleMs + 1} : TimeUpdate(id, t, e)
    \/ SyncTimerFires

SpecRepeat == Init /\ [][NextRepeat]_vars

(***************************************************************************)
(* SpecRepeatDrag: time-updates against an active loop whose markers are   *)
(* dragged                                                                 *)
(***************************************************************************)
NextRepeatDrag ==
    \/ AddTrack(1)
    \/ \E id \in TrackIdSet : RegisterWavesurfer(id)
    \/ \E id \in TrackIdSet, d \in Durations : Ready(id, d)
    \/ \E t \in Times : AddMarker(MaxMarkerIds - 1, t)
    \/ \E a, b \in MarkerIds : a # b /\ CreateLoop(MaxLoopIds - 1, a, b)
    \/ \E id \in MarkerIdsPresent, t \in Times : UpdateMarkerTime(id, t)
    \/ \E id \in LoopIds : ToggleLoopById(id)
    \/ \E id \in LoopIdsPresent : SetActiveLoop(id)
    \/ \E id \in TrackIdSet, t \in Times : TimeUpdate(id, t, ThrottleMs + 1)
    \/ SyncTimerFires

SpecRepeatDrag == Init /\ [][NextRepeatDrag]_vars

(***************************************************************************)
(* SpecMix: mute and solo on tracks whose adapters come and go             *)
(***************************************************************************)
NextMix ==
    \/ AddTrack(MaxTracks)
    \/ \E id \in TrackIdSet : RegisterWavesurfer(id)
    \/ \E id \in TrackIdSet : UnregisterWavesurfer(id)
    \/ \E id \in TrackIdSet, d \in Durations : Ready(id, d)
    \/ \E id \in TrackIdSet : ToggleMute(id)
    \/ \E id \in TrackIdSet : ToggleSolo(id)
    \/ \E id \in TrackIdSet : ExclusiveSolo(id)
    \/ UnmuteAll
    \/ SyncTimerFires

SpecMix == Init /\ [][NextMix]_vars

(***************************************************************************)
(* SpecMarkers: addMarker on a marker list restored by loadLoopV2State,    *)
(* close to the cap                                                        *)
(***************************************************************************)
\* n markers spread over 0..MaxTime in time order, as a reload restores them
RestoredMarkers(n) == [i \in 1..n |-> [id |-> i, time |-> ((i - 1) * (MaxTime + 1)) \div n]]

InitMarkers ==
    /\ tracks = <<>>
    /\ playbackState = [isPlaying |-> FALSE, currentTime |-> 0, duration |-> 0]
    /\ \E n \in (MarkerCap - MaxRestoredGap)..MarkerCap :
          /\ loopState = [markers |-> RestoredMarkers(n), loops |-> <<>>,
                          activeLoopId |-> NULL, editMode |-> FALSE]
          /\ nextId = [track |-> 0, marker |-> n, loop |-> 0]
    /\ preserveLoopOnNextSeek = FALSE
    /\ loopBackup = NULL
    /\ recordingStartTime = NULL
    /\ wavesurferInstances = <<>>
    /\ finishedInstances = {}
    /\ isSynchronizing = FALSE
    /\ syncTimers = 0
    /\ playbackTime = 0
    /\ seekCalls = <<>>
    /\ playCalls = <<>>
    /\ recorders = [id \in 1..TrackCap |-> NoRecorder]
    /\ currentPieceId = 1
    /\ pieces = {1}
    /\ addTrackCalls = <<>>

NextMarkers ==
    \/ AddTrack(1)
    \/ \E id \in TrackIdSet : RegisterWavesurfer(id)
    \/ \E id \in TrackIdSet, d \in Durations : Ready(id, d)
    \/ \E t \in Times : AddMarker(MarkerCap + 1, t)
    \/ SyncTimerFires

SpecMarkers == InitMarkers /\ [][NextMarkers]_vars

(***************************************************************************)
(* SpecPlay: the transport over tracks of different lengths, with adapter  *)
(* clocks, finish reports and play() rejections                            *)
(***************************************************************************)
TrackLengths == 1..MaxTime
\* seek takes any number: below 0, in range, above the longest track
SeekArgs == (0 - 1)..(MaxTime + 1)
RegisteredIds == {wavesurferInstances[i].id : i \in 1..Len(wavesurferInstances)}

NextPlay ==
    \/ AddTrack(MaxTracks - 1)
    \/ \E id \in TrackIdSet : RegisterWavesurfer(id)
    \/ \E id \in TrackIdSet, d \in TrackLengths : Ready(id, d)
    \/ \E rejected \in SUBSET RegisteredIds : Play(rejected)
    \/ Pause
    \/ \E t \in SeekArgs : Seek(t)
    \/ \E id \in TrackIdSet : Advance(id)
    \/ \E id \in TrackIdSet : Finish(id)
    \/ SyncTimerFires

SpecPlay == Init /\ [][NextPlay]_vars

(***************************************************************************)
(* SpecOverlap: seeks that follow each other within the 50 ms of their     *)
(* timers, on one loaded track                                             *)
(***************************************************************************)
NextOverlap ==
    \/ AddTrack(1)
    \/ \E id \in TrackIdSet : RegisterWavesurfer(id)
    \/ \E id \in TrackIdSet, d \in TrackLengths : Ready(id, d)
    \/ \E t \in SeekArgs : OverlappingSeek(t)
    \/ Play({})
    \/ Pause
    \/ SyncTimerFires

SpecOverlap == Init /\ [][NextOverlap]_vars

(***************************************************************************)
(* SpecDrop: files dropped on the uploader of a store without a piece      *)
(***************************************************************************)
InitDrop ==
    /\ tracks = <<>>
    /\ playbackState = [isPlaying |-> FALSE, currentTime |-> 0, duration |-> 0]
    /\ loopState = [markers |-> <<>>, loops |-> <<>>, activeLoopId |-> NULL, editMode |-> FALSE]
    /\ preserveLoopOnNextSeek = FALSE
    /\ loopBackup = NULL
    /\ recordingStartTime = NULL
    /\ wavesurferInstances = <<>>
    /\ finishedInstances = {}
    /\ isSynchronizing = FALSE
    /\ syncTimers = 0
    /\ playbackTime = 0
    /\ nextId = [track |-> 0, marker |-> 0, loop |-> 0]
    /\ seekCalls = <<>>
    /\ playCalls = <<>>
    /\ recorders = [id \in 1..TrackCap |-> NoRecorder]
    /\ currentPieceId = NULL
    /\ pieces = {}
    /\ addTrackCalls = <<>>

NextDrop ==
    \/ \E files \in 1..MaxDroppedFiles : HandleDrop(files)
    \/ \E call \in 1..MaxDroppedFiles : AddTrackResumes(call)
    \/ \E id \in TrackIdSet : RegisterWavesurfer(id)
    \/ \E id \in TrackIdSet, d \in Durations : Ready(id, d)
    \/ Play({})
    \/ Pause
    \/ SyncTimerFires

SpecDrop == InitDrop /\ [][NextDrop]_vars

(***************************************************************************)
(* SpecGesture: edit-mode gestures that start off the markers, on a        *)
(* restored marker/loop list close to the caps                             *)
(***************************************************************************)
\* n restored markers: LoopCap of them on tick 1, the others on the last tick
RestoredGestureMarkers(n) ==
    [i \in 1..n |-> [id |-> i, time |-> IF i <= LoopCap THEN 1 ELSE MaxTime]]
\* k restored loops, each from one of the markers on tick 1 to the last marker
RestoredLoops(k, n) ==
    [j \in 1..k |-> [id |-> j, startMarkerId |-> j, endMarkerId |-> n, enabled |-> FALSE]]

InitGesture ==
    /\ tracks = <<>>
    /\ playbackState = [isPlaying |-> FALSE, currentTime |-> 0, duration |-> 0]
    /\ \E n \in (MarkerCap - MaxRestoredLoops - 1)..MarkerCap,
          k \in (LoopCap - MaxRestoredLoops)..LoopCap :
          /\ loopState = [markers |-> RestoredGestureMarkers(n), loops |-> RestoredLoops(k, n),
                          activeLoopId |-> NULL, editMode |-> FALSE]
          /\ nextId = [track |-> 0, marker |-> n, loop |-> k]
    /\ preserveLoopOnNextSeek = FALSE
    /\ loopBackup = NULL
    /\ recordingStartTime = NULL
    /\ wavesurferInstances = <<>>
    /\ finishedInstances = {}
    /\ isSynchronizing = FALSE
    /\ syncTimers = 0
    /\ playbackTime = 0
    /\ seekCalls = <<>>
    /\ playCalls = <<>>
    /\ recorders = [id \in 1..TrackCap |-> NoRecorder]
    /\ currentPieceId = 1
    /\ pieces = {1}
    /\ addTrackCalls = <<>>

NextGesture ==
    \/ AddTrack(1)
    \/ \E id \in TrackIdSet : RegisterWavesurfer(id)
    \/ \E id \in TrackIdSet, d \in Durations : Ready(id, d)
    \/ ToggleLoopEditMode
    \/ \E a \in Times, b \in PointerTimes :
          /\ ~OnMarker(loopState, a, playbackState.duration)
          /\ EditLayerGesture(MarkerCap + 1, a, b)
    \/ \E a \in Times, b \in PointerTimes : OverlayGesture(MarkerCap + 1, a, b)
    \/ SyncTimerFires

SpecGesture == InitGesture /\ [][NextGesture]_vars

(***************************************************************************)
(* SpecEdit: the pointer on the waveform of one track, in edit mode and    *)
(* out of it                                                               *)
(***************************************************************************)
NextEdit ==
    \/ AddTrack(1)
    \/ \E id \in TrackIdSet : RegisterWavesurfer(id)
    \/ \E id \in TrackIdSet, d \in Durations : Ready(id, d)
    \/ ToggleLoopEditMode
    \/ \E a \in Times, b \in PointerTimes : EditLayerGesture(MaxMarkerIds, a, b)
    \/ \E id \in TrackIdSet, t \in Times : WaveformClick(id, t)
    \/ \E id \in LoopIdsPresent : LoopZoneClick(id, {})
    \/ Pause
    \/ SyncTimerFires

SpecEdit == Init /\ [][NextEdit]_vars

(***************************************************************************)
(* SpecCaps: addMarker, createLoop and removeLoop on a restored marker/loop *)
(* list close to the caps                                                  *)
(***************************************************************************)
NextCaps ==
    \/ \E t \in Times : AddMarker(MarkerCap + 1, t)
    \/ \E a, b \in MarkerIds : a # b /\ CreateLoop(LoopCap + 1, a, b)
    \/ \E id \in (LoopCap - MaxLoopIds + 1)..LoopCap : RemoveLoop(id)

SpecCaps == InitGesture /\ [][NextCaps]_vars

(***************************************************************************)
(* SpecPanel: loops made from the markers panel on the markers of a track  *)
(***************************************************************************)
NextPanel ==
    \/ AddTrack(1)
    \/ \E id \in TrackIdSet : RegisterWavesurfer(id)
    \/ \E id \in TrackIdSet, d \in Durations : Ready(id, d)
    \/ \E t \in Times : AddMarker(MaxMarkerIds, t)
    \/ \E a, b \in MarkerIds : LoopEndpoint(MaxLoopIds + 1, a, b)
    \/ \E id \in LoopIds : RemoveLoop(id)
    \/ \E id \in LoopIds : ToggleLoopById(id)
    \/ SyncTimerFires

SpecPanel == Init /\ [][NextPanel]_vars

(***************************************************************************)
(* SpecRefs: the marker/loop operations called with any id, also ids that  *)
(* are not, or no longer, in LoopState                                     *)
(***************************************************************************)
NextRefs ==
    \/ AddTrack(1)
    \/ \E id \in TrackIdSet : RegisterWavesurfer(id)
    \/ \E id \in TrackIdSet, d \in Durations : Ready(id, d)
    \/ \E t \in Times : AddMarker(MaxMarkerIds - 1, t)
    \/ \E id \in MarkerIds : RemoveMarker(id)
    \/ \E id \in MarkerIds, t \in Times : UpdateMarkerTime(id, t)
    \/ \E a, b \in MarkerIds : CreateLoop(MaxLoopIds - 1, a, b)
    \/ \E id \in LoopIds : RemoveLoop(id)
    \/ \E id \in LoopIds : ToggleLoopById(id)
    \/ \E id \in LoopIds \cup {NULL} : SetActiveLoop(id)
    \/ SyncTimerFires

SpecRefs == Init /\ [][NextRefs]_vars

(***************************************************************************)
(* SpecDrag: loops whose markers are dragged to other times                *)
(***************************************************************************)
NextDrag ==
    \/ AddTrack(1)
    \/ \E id \in TrackIdSet : RegisterWavesurfer(id)
    \/ \E id \in TrackIdSet, d \in Durations : Ready(id, d)
    \/ \E t \in Times : AddMarker(MaxMarkerIds - 1, t)
    \/ \E id \in MarkerIdsPresent, t \in PointerTimes : UpdateMarkerTime(id, t)
    \/ \E a, b \in MarkerIds : a # b /\ CreateLoop(MaxLoopIds - 1, a, b)
    \/ \E id \in LoopIds : ToggleLoopById(id)
    \/ \E id \in LoopIdsPresent \cup {NULL} : SetActiveLoop(id)
    \/ \E t \in Times : Seek(t)
    \/ SyncTimerFires

SpecDrag == Init /\ [][NextDrag]_vars

(***************************************************************************)
(* SpecRecord: a recordable track beside one audio track; arming, the     *)
(* transport, the recording component and its capture engine.  The store   *)
(* is read through useSyncExternalStore, so a store write re-renders and    *)
(* runs the pending effects before the next event is handled.              *)
(***************************************************************************)
EffectsFlushed == \A id \in TrackIdSet : ~RecorderEffectPending(id)
AudioTrackIds == {id \in TrackIdSet : ~FindId(tracks, id).isRecordable}

NextRecord ==
    \/ \E id \in TrackIdSet : RecorderEffect(id)
    \/ EffectsFlushed /\ AddTrack(1)
    \/ EffectsFlushed /\ AddRecordableTrack(1)
    \/ \E id \in AudioTrackIds : EffectsFlushed /\ RegisterWavesurfer(id)
    \/ \E id \in AudioTrackIds : \E d \in TrackLengths : EffectsFlushed /\ Ready(id, d)
    \/ \E id \in TrackIdSet : EffectsFlushed /\ ToggleRecordArm(id)
    \/ EffectsFlushed /\ Play({})
    \/ EffectsFlushed /\ Pause
    \/ \E id \in TrackIdSet : EffectsFlushed /\ Advance(id)
    \/ \E id \in TrackIdSet : EffectsFlushed /\ RecordStart(id)
    \/ \E id \in TrackIdSet : EffectsFlushed /\ CaptureFails(id)
    \/ \E id \in TrackIdSet, b \in ShortMonoBuffers : EffectsFlushed /\ RecordEnd(id, b)
    \/ \E id \in TrackIdSet : EffectsFlushed /\ SaveRecordingCompletes(id)
    \/ \E id \in TrackIdSet : EffectsFlushed /\ ClearRecording(id)
    \/ EffectsFlushed /\ SyncTimerFires

SpecRecord == Init /\ [][NextRecord]_vars

(***************************************************************************)
(* SpecPad: one take on a recordable track, the capture delivering buffers *)
(* of any shape                                                            *)
(***************************************************************************)
NextPad ==
    \/ \E id \in TrackIdSet : RecorderEffect(id)
    \/ EffectsFlushed /\ AddTrack(1)
    \/ EffectsFlushed /\ AddRecordableTrack(1)
    \/ \E id \in AudioTrackIds : EffectsFlushed /\ RegisterWavesurfer(id)
    \/ \E id \in AudioTrackIds : \E d \in Durations : EffectsFlushed /\ Ready(id, d)
    \/ \E id \in TrackIdSet : EffectsFlushed /\ ~FindId(tracks, id).hasFile /\ ToggleRecordArm(id)
    \/ EffectsFlushed /\ Play({})
    \/ EffectsFlushed /\ Pause
    \/ \E id \in TrackIdSet : EffectsFlushed /\ Advance(id)
    \/ \E id \in TrackIdSet : EffectsFlushed /\ RecordStart(id)
    \/ \E id \in TrackIdSet, b \in CapturedBuffers : EffectsFlushed /\ RecordEnd(id, b)
    \/ \E id \in TrackIdSet : EffectsFlushed /\ SaveRecordingCompletes(id)
    \/ EffectsFlushed /\ SyncTimerFires

SpecPad == Init /\ [][NextPad]_vars

(***************************************************************************)
(* State functions used by the properties                                  *)
(***************************************************************************)
\* the active loop is a loop of LoopState whose two markers exist
ActiveLoopResolves ==
    /\ loopState.activeLoopId # NULL
    /\ HasId(Loops, loopState.activeLoopId)
    /\ HasId(Markers, FindId(Loops, loopState.activeLoopId).startMarkerId)
    /\ HasId(Markers, FindId(Loops, loopState.activeLoopId).endMarkerId)
ActiveLoop == FindId(Loops, loopState.activeLoopId)
ActiveStart == MarkerTime(loopState, ActiveLoop.startMarkerId)
ActiveEnd == MarkerTime(loopState, ActiveLoop.endMarkerId)

(***************************************************************************)
(* C1.  In every reachable state at most one loop of LoopState has         *)
(* enabled = true.                                                         *)
(***************************************************************************)
AtMostOneLoopEnabled == Cardinality({i \in 1..Len(Loops) : Loops[i].enabled}) <= 1

\* two loops exist and the one created last is the enabled, active one
TwoLoopsOneEnabled ==
    /\ Len(Loops) = 2
    /\ Loops[2].enabled /\ ~Loops[1].enabled
    /\ loopState.activeLoopId = Loops[2].id

(***************************************************************************)
(* C2.  activeLoopId is non-null exactly when some loop is enabled, and    *)
(* then it is the id of the one enabled loop, which is in loops.           *)
(***************************************************************************)
ActiveLoopIdMatchesEnabledLoop ==
    /\ (loopState.activeLoopId # NULL) <=> (EnabledLoopIds # {})
    /\ loopState.activeLoopId # NULL => EnabledLoopIds = {loopState.activeLoopId}

(***************************************************************************)
(* C3.  After any sequence of addMarker calls the markers are sorted by    *)
(* non-decreasing time and there are at most 20 of them.                   *)
(***************************************************************************)
MarkersSortedAndCapped ==
    /\ \A i \in 1..(Len(Markers) - 1) : Markers[i].time <= Markers[i + 1].time
    /\ Len(Markers) <= MarkerCap

\* the cap is reached and a marker added later sits before an older one
CapReachedAfterUnorderedAdds ==
    /\ Len(Markers) = MarkerCap
    /\ \E i, j \in 1..Len(Markers) :
          i < j /\ Markers[i].id > Markers[j].id /\ Markers[i].time < Markers[j].time

(***************************************************************************)
(* C4.  Every createLoop(a, b) on two existing markers that creates a loop *)
(* creates one whose start marker time is strictly below its end marker    *)
(* time.                                                                   *)
(***************************************************************************)
CreatedLoopStartsBeforeEnd ==
    [][\A a, b \in MarkerIds :
          (a # b /\ CreateLoop(MaxLoopIds, a, b) /\ Len(loopState'.loops) > Len(Loops))
          => LET created == loopState'.loops[Len(loopState'.loops)]
             IN MarkerTime(loopState', created.startMarkerId)
                    < MarkerTime(loopState', created.endMarkerId)]_vars

(***************************************************************************)
(* C5.  removeMarker(id) removes the marker and every loop that starts or  *)
(* ends at it, keeps every other marker and loop, and clears activeLoopId  *)
(* exactly when the active loop was one of the removed loops.              *)
(***************************************************************************)
RemoveMarkerCascades ==
    [][\A id \in MarkerIds :
          RemoveMarker(id) =>
            LET Uses(l) == l.startMarkerId = id \/ l.endMarkerId = id
                removed == {Loops[i].id : i \in {j \in 1..Len(Loops) : Uses(Loops[j])}}
            IN /\ {loopState'.markers[i] : i \in 1..Len(loopState'.markers)}
                     = {Markers[i] : i \in {j \in 1..Len(Markers) : Markers[j].id # id}}
               /\ Len(loopState'.markers) = Cardinality(MarkerIdsPresent \ {id})
               /\ {loopState'.loops[i] : i \in 1..Len(loopState'.loops)}
                     = {Loops[i] : i \in {j \in 1..Len(Loops) : ~Uses(Loops[j])}}
               /\ Len(loopState'.loops) = Cardinality(LoopIdsPresent \ removed)
               /\ loopState'.activeLoopId =
                     IF loopState.activeLoopId \in removed THEN NULL
                     ELSE loopState.activeLoopId]_vars

\* a marker is gone, the active loop went with it, and another loop survived
MarkerRemovedWithActiveLoop ==
    /\ Len(Markers) < nextId.marker
    /\ Len(Markers) >= 2
    /\ Len(Loops) = 1 /\ nextId.loop = 2
    /\ loopState.activeLoopId = NULL
    /\ Loops[1].startMarkerId \in MarkerIdsPresent
    /\ Loops[1].endMarkerId \in MarkerIdsPresent
    /\ \E gone \in (1..nextId.marker) \ MarkerIdsPresent : gone < Loops[1].startMarkerId

(***************************************************************************)
(* C6.  While a loop is active and enabled, a processed time-update below  *)
(* the end marker time issues no seek, and a time-update at or past the    *)
(* end marker time issues exactly one seek, to the start marker time.      *)
(***************************************************************************)
BoundaryCheckSeeksOnceAtEnd ==
    [][\A id \in TrackIdSet, t \in Times :
          (/\ ActiveLoopResolves
           /\ ActiveLoop.enabled
           /\ TimeUpdate(id, t, ThrottleMs + 1))
          => seekCalls' = IF t >= ActiveEnd THEN <<ActiveStart>> ELSE <<>>]_vars

\* a time-update at the end of the proper active loop has just sought its start
RepeatedAtLoopEnd ==
    /\ ActiveLoopResolves
    /\ ActiveLoop.enabled
    /\ ActiveStart < ActiveEnd
    /\ playbackTime = ActiveEnd
    /\ seekCalls = <<ActiveStart>>
    /\ playbackState.currentTime = ActiveStart

(***************************************************************************)
(* C7.  seek(t) with an active loop and the preserve flag not set keeps    *)
(* the loop active and enabled when t is in [start, end), and disables it  *)
(* (activeLoopId null, no loop enabled) when t is outside, t = end         *)
(* included.                                                               *)
(***************************************************************************)
SeekKeepsLoopOnHalfOpenSpan ==
    [][\A t \in Times :
          (/\ ~preserveLoopOnNextSeek
           /\ ActiveLoopResolves
           /\ ActiveLoop.enabled
           /\ ActiveStart < ActiveEnd
           /\ Seek(t))
          => IF ActiveStart <= t /\ t < ActiveEnd
             THEN loopState' = loopState
             ELSE loopState'.activeLoopId = NULL /\ EnabledLoopIdsNext = {}]_vars

(***************************************************************************)
(* C8.  setActiveLoop(id) on an existing loop leaves exactly that loop     *)
(* enabled; the next seek, to any time, leaves it active and consumes the  *)
(* preserve flag; a later seek outside the loop disables it.               *)
(***************************************************************************)
PreserveFlagCoversOneSeek ==
    [][/\ \A id \in LoopIds :
            (HasId(Loops, id) /\ SetActiveLoop(id))
            => /\ EnabledLoopIdsNext = {id}
               /\ loopState'.activeLoopId = id
               /\ preserveLoopOnNextSeek'
       /\ \A t \in Times :
            (preserveLoopOnNextSeek /\ ActiveLoopResolves /\ ActiveLoop.enabled /\ Seek(t))
            => /\ loopState' = loopState
               /\ ~preserveLoopOnNextSeek'
       /\ \A t \in Times :
            (/\ ~preserveLoopOnNextSeek
             /\ ActiveLoopResolves
             /\ (t < ActiveStart \/ t > ActiveEnd)
             /\ Seek(t))
            => loopState'.activeLoopId = NULL /\ EnabledLoopIdsNext = {}]_vars

\* the flag is spent and the last seek left the loop active at a time outside it
PreservedSeekOutsideLoop ==
    /\ ~preserveLoopOnNextSeek
    /\ ActiveLoopResolves
    /\ ActiveLoop.enabled
    /\ seekCalls = <<playbackState.currentTime>>
    /\ (playbackState.currentTime < ActiveStart \/ playbackState.currentTime > ActiveEnd)

(***************************************************************************)
(* C9.  seek(t) called twice in a row with the same t leaves currentTime   *)
(* equal to t and LoopState after the second call equal to LoopState       *)
(* after the first (stated over the states whose activeLoopId is null or   *)
(* names a loop that exists together with its two markers).                *)
(***************************************************************************)
SeekTwiceSameAsOnce ==
    (loopState.activeLoopId = NULL \/ ActiveLoopResolves)
    => \A t \in Times :
          LET once == OpSeek(St, t)
              twice == OpSeek(once, t)
          IN /\ twice.playbackState.currentTime = t
             /\ twice.loopState = once.loopState

\* C9 as amended: the same in every state, unless the first call is the seek
\* that consumes the preserve flag and t lies outside the active loop's span
SeekTwiceSameAsOnceUnlessPreserved ==
    \A t \in Times :
        LET insideSpan == ActiveLoopResolves /\ ActiveStart <= t /\ t <= ActiveEnd
            once == OpSeek(St, t)
            twice == OpSeek(once, t)
        IN ~(preserveLoopOnNextSeek /\ loopState.activeLoopId # NULL /\ ~insideSpan)
           => /\ once.playbackState.currentTime = t
              /\ twice.playbackState.currentTime = t
              /\ twice.loopState = once.loopState

\* a seek without the flag has just moved the transport out of the proper
\* active loop, which it disabled
SeekOutsideDisabledLoop ==
    /\ seekCalls = <<playbackState.currentTime>>
    /\ loopState.activeLoopId = NULL
    /\ EnabledLoopIds = {}
    /\ \E i \in 1..Len(Loops) :
          /\ MarkerTime(loopState, Loops[i].startMarkerId) < MarkerTime(loopState, Loops[i].endMarkerId)
          /\ playbackState.currentTime > MarkerTime(loopState, Loops[i].endMarkerId)

(***************************************************************************)
(* C10.  The muted flag of every adapter that reported ready equals        *)
(* track.isMuted OR (some track has isSolo AND this track does not).       *)
(***************************************************************************)
AdapterMuteFollowsRule ==
    \A i \in 1..Len(wavesurferInstances) :
        LET w == wavesurferInstances[i] IN
        (w.ready /\ HasId(tracks, w.id))
        => w.muted = ShouldBeMuted(FindId(tracks, w.id).isMuted, FindId(tracks, w.id).isSolo,
                                   HasSoloedTracks(tracks))

(***************************************************************************)
(* State functions of the transport properties                             *)
(***************************************************************************)
Instances == wavesurferInstances
PlayCalledOn(id) == \E i \in 1..Len(playCalls') : playCalls'[i] = id
PlayCallCount(id) == Cardinality({i \in 1..Len(playCalls') : playCalls'[i] = id})

(***************************************************************************)
(* C11.  play() issues no play to an adapter whose position is >= its own  *)
(* duration and that adapter is in the finished set when play() returns;   *)
(* every other registered adapter is issued play and is not in the         *)
(* finished set.                                                           *)
(***************************************************************************)
PlaySkipsAdaptersAtEnd ==
    [][\A rejected \in SUBSET RegisteredIds :
          Play(rejected)
          => \A i \in 1..Len(Instances) :
                LET w == Instances[i] IN
                IF w.time >= w.duration
                THEN ~PlayCalledOn(w.id) /\ w.id \in finishedInstances'
                ELSE PlayCalledOn(w.id) /\ w.id \notin finishedInstances']_vars

\* play() has just skipped a loaded adapter standing at its end and started another
PlayedWithOneAdapterAtEnd ==
    /\ playbackState.isPlaying
    /\ seekCalls = <<>>
    /\ \E i, j \in 1..Len(Instances) :
          /\ Instances[i].ready /\ Instances[i].time = Instances[i].duration
          /\ Instances[i].id \in finishedInstances
          /\ playCalls = <<Instances[j].id>>
          /\ Instances[j].id \notin finishedInstances
          /\ Instances[j].playing

(***************************************************************************)
(* C12.  A finish report that makes every registered adapter finished      *)
(* auto-pauses and seeks to 0: isPlaying false, currentTime 0, every       *)
(* adapter at position 0, finished set empty.  A finish report that leaves *)
(* some registered adapter unfinished only records the finish: the         *)
(* transport and the other adapters are untouched.                         *)
(***************************************************************************)
AutoPauseWhenAllFinished ==
    [][\A id \in TrackIdSet :
          Finish(id)
          => IF RegisteredIds \subseteq (finishedInstances \cup {id})
             THEN /\ ~playbackState'.isPlaying
                  /\ playbackState'.currentTime = 0
                  /\ seekCalls' = <<0>>
                  /\ \A i \in 1..Len(Instances') : Instances'[i].time = 0 /\ ~Instances'[i].playing
                  /\ finishedInstances' = {}
             ELSE /\ playbackState' = playbackState
                  /\ seekCalls' = <<>>
                  /\ finishedInstances' = finishedInstances \cup {id}
                  /\ \A i \in 1..Len(Instances) :
                        Instances[i].id # id => Instances'[i] = Instances[i]]_vars

\* the last of two loaded adapters has reported finish: the transport stands
\* paused at 0 by the auto-pause
AutoPausedAfterLastFinish ==
    /\ Len(Instances) = 2
    /\ \A i \in 1..Len(Instances) : Instances[i].ready /\ Instances[i].time = 0
    /\ seekCalls = <<0>>
    /\ Len(tracks) = 2
    /\ playbackTime > 0
    /\ ~playbackState.isPlaying
    /\ finishedInstances = {}

(***************************************************************************)
(* C13.  When adapters reject play(), play is still issued exactly once to *)
(* every adapter that is not at its end, the adapters that did not reject  *)
(* are playing, and isPlaying is true when play() returns.                 *)
(***************************************************************************)
PlayRejectionIsContained ==
    [][\A rejected \in SUBSET RegisteredIds :
          Play(rejected)
          => /\ playbackState'.isPlaying
             /\ \A i \in 1..Len(Instances) :
                   LET w == Instances[i] IN
                   /\ PlayCallCount(w.id) = IF w.time >= w.duration THEN 0 ELSE 1
                   /\ (w.time < w.duration /\ w.id \notin rejected) => Instances'[i].playing]_vars

\* play() was called, the first adapter rejected it and the second is playing
PlayedAfterFirstAdapterRejected ==
    /\ playbackState.isPlaying
    /\ Len(playCalls) = 2
    /\ Len(Instances) = 2
    /\ Instances[1].id = playCalls[1] /\ ~Instances[1].playing
    /\ Instances[2].id = playCalls[2] /\ Instances[2].playing

(***************************************************************************)
(* C14.  When a seek(t) has returned, every registered adapter stands at   *)
(* the time t that PlaybackState.currentTime holds.                        *)
(***************************************************************************)
SeekReachesEveryAdapter ==
    seekCalls # <<>>
    => /\ playbackState.currentTime = seekCalls[Len(seekCalls)]
       /\ \A i \in 1..Len(Instances) : Instances[i].time = playbackState.currentTime

\* a seek to a later time has moved two adapters, one of them finished
SoughtWithFinishedAdapter ==
    /\ seekCalls # <<>>
    /\ playbackState.currentTime > 0
    /\ Len(Instances) = 2
    /\ finishedInstances # {}
    /\ \E i \in 1..Len(Instances) : Instances[i].id \notin finishedInstances

(***************************************************************************)
(* C15.  seek(t) removes from the finished set exactly the finished        *)
(* adapters whose duration is greater than t, and issues play on exactly   *)
(* those when the transport was playing (on none otherwise); finished      *)
(* adapters with duration <= t stay finished.                              *)
(***************************************************************************)
SeekReenablesFinishedAdapters ==
    [][\A t \in SeekArgs :
          Seek(t)
          => LET reenabled == {id \in finishedInstances :
                                  HasId(Instances, id) /\ FindId(Instances, id).duration > t}
             IN /\ finishedInstances' = finishedInstances \ reenabled
                /\ \A i \in 1..Len(Instances) :
                      PlayCallCount(Instances[i].id) =
                          IF playbackState.isPlaying /\ Instances[i].id \in reenabled
                          THEN 1 ELSE 0]_vars

\* a seek during playback has restarted one finished adapter and left the
\* other one finished
SoughtBackWhilePlaying ==
    /\ playbackState.isPlaying
    /\ Len(seekCalls) = 1
    /\ Len(playCalls) = 1
    /\ playCalls[1] \notin finishedInstances
    /\ finishedInstances # {}

(***************************************************************************)
(* C16.  For every argument time (negative, above duration, or in range),  *)
(* after seek(time) PlaybackState.currentTime equals                       *)
(* min(max(time, 0), duration) and so lies in [0, duration].               *)
(***************************************************************************)
SeekClampsToDuration ==
    [][\A t \in SeekArgs :
          Seek(t)
          => /\ playbackState'.currentTime = Min(Max(t, 0), playbackState.duration)
             /\ 0 <= playbackState'.currentTime
             /\ playbackState'.currentTime <= playbackState.duration]_vars

GestureOffMarkers(a, b) ==
    /\ ~OnMarker(loopState, a, playbackState.duration)
    /\ \/ EditLayerGesture(MarkerCap + 1, a, b)
       \/ OverlayGesture(MarkerCap + 1, a, b)

\* the step added exactly one marker, at time t, and no loop
OneMarkerAdded(t) ==
    /\ loopState'.markers = SortByTime(Append(Markers, [id |-> nextId.marker + 1, time |-> t]))
    /\ loopState'.loops = Loops

\* the step added exactly two markers, at lo and hi, and one loop from the
\* first to the second
TwoMarkersAndLoopAdded(lo, hi) ==
    /\ loopState'.markers =
           SortByTime(Append(SortByTime(Append(Markers, [id |-> nextId.marker + 1, time |-> lo])),
                             [id |-> nextId.marker + 2, time |-> hi]))
    /\ loopState'.loops =
           Append(Loops, [id |-> nextId.loop + 1, startMarkerId |-> nextId.marker + 1,
                          endMarkerId |-> nextId.marker + 2, enabled |-> FALSE])

(***************************************************************************)
(* C18.  In edit mode a gesture that does not start on an existing marker  *)
(* creates exactly one marker at its start time and no loop when its       *)
(* distance is below 0.5 s, and exactly two markers at min(start, end) and *)
(* max(start, end) with exactly one loop linking them when its distance is *)
(* 0.5 s or more.                                                          *)
(***************************************************************************)
GestureCreatesMarkerOrLoop ==
    [][\A a \in Times, b \in PointerTimes :
          GestureOffMarkers(a, b)
          => IF 2 * Abs(b - a) < TicksPerSecond
             THEN OneMarkerAdded(a)
             ELSE TwoMarkersAndLoopAdded(Min(a, b), Max(a, b))]_vars

\* C18 as amended: the same for a gesture released on the timeline (end time
\* in [0, duration]) while the caps leave room for what the gesture creates
\* (one marker; two markers and one loop)
GestureCreatesMarkerOrLoopBelowCaps ==
    [][\A a \in Times, b \in PointerTimes :
          (GestureOffMarkers(a, b) /\ 0 <= b /\ b <= playbackState.duration)
          => IF 2 * Abs(b - a) < TicksPerSecond
             THEN Len(Markers) < MarkerCap => OneMarkerAdded(a)
             ELSE (Len(Markers) + 2 <= MarkerCap /\ Len(Loops) < LoopCap)
                  => TwoMarkersAndLoopAdded(Min(a, b), Max(a, b))]_vars

\* a gesture has just created the two newest markers, one second or more
\* apart, and the newest loop between them
LoopDrawnByGesture ==
    /\ loopState.editMode
    /\ Len(Loops) > 0
    /\ Len(Markers) <= MarkerCap
    /\ LET l == Loops[Len(Loops)] IN
       /\ l.id = nextId.loop
       /\ l.startMarkerId = nextId.marker - 1
       /\ l.endMarkerId = nextId.marker
       /\ MarkerTime(loopState, l.startMarkerId) + TicksPerSecond
              <= MarkerTime(loopState, l.endMarkerId)

(***************************************************************************)
(* Recording                                                               *)
(***************************************************************************)
RecorderIds == DOMAIN recorders

\* C19: the offset used to pad a recording is expected + (actual - expected) / 2,
\* that is, twice the offset is expected + actual: expected is the offset that
\* startRecording stored on the track and that the capturing component closed
\* over, actual is the time of the first adapter when the capture engine
\* signalled its start.  Expected 4.00 s and actual 4.02 s give 4.01 s (here
\* in hundredths of a second).
PadOffsetIsHalfwayPoint ==
    [][\A id \in RecorderIds :
          /\ (RecorderEffect(id) /\ recorders'[id].starting)
                => recorders'[id].expected = FindId(tracks, id).recordingStartOffset
          /\ (RecordStart(id) /\ Len(wavesurferInstances) > 0)
                => recorders'[id].actualStartTime = wavesurferInstances[1].time
          /\ (RecorderEffect(id) /\ ~recorders[id].ending /\ recorders'[id].ending)
                => recorders'[id].endingExpected = recorders[id].expected
          /\ (\E b \in CapturedBuffers : RecordEnd(id, b))
                => /\ recorders'[id].compensatedOffset
                          = recorders[id].endingExpected + recorders[id].actualStartTime
                   /\ recorders'[id].saving
          /\ CompensatedOffset(400, 402) = 2 * 401
      ]_vars

\* C19 witness: a recording was padded by an offset half a tick past its
\* expected start: the capture engine started one tick late
PaddedHalfwayBetween ==
    \E id \in RecorderIds :
        /\ recorders[id].saving
        /\ HasId(tracks, id)
        /\ recorders[id].actualStartTime = FindId(tracks, id).recordingStartOffset + 1
        /\ recorders[id].compensatedOffset = 2 * FindId(tracks, id).recordingStartOffset + 1

\* the transitions of the recording state machine:
\* idle -> armed -> recording -> stopped -> idle, armed -> idle on disarm
MachineSteps ==
    {<<"idle", "armed">>, <<"armed", "recording">>, <<"recording", "stopped">>,
     <<"stopped", "idle">>, <<"armed", "idle">>}

\* C20: every change of a recordable track's recordingState is a transition of
\* the machine idle -> armed -> recording -> stopped -> idle (with armed -> idle
\* on disarm).  pause() on a recording track makes two store writes, recording
\* -> stopped and stopped -> idle, which is counted as the two transitions.
RecordingStateFollowsMachine ==
    [][\A i \in 1..Len(tracks) :
          (i <= Len(tracks') /\ tracks[i].isRecordable
                /\ tracks'[i].recordingState # tracks[i].recordingState)
              => \/ <<tracks[i].recordingState, tracks'[i].recordingState>> \in MachineSteps
                 \/ /\ Pause
                    /\ tracks[i].recordingState = "recording"
                    /\ tracks'[i].recordingState = "idle"
      ]_vars

(***************************************************************************)
(* Arming and the loop backup                                              *)
(***************************************************************************)
IsArmedTrack(id) == HasId(tracks, id) /\ FindId(tracks, id).isArmed
IsDisarmedRecordable(id) ==
    HasId(tracks, id) /\ FindId(tracks, id).isRecordable /\ ~FindId(tracks, id).isArmed

\* C21: arming a recordable track while loop L is active sets activeLoopId to
\* null and stores L as the backup; disarming, by toggleRecordArm or by pause,
\* restores activeLoopId = L and clears the backup; arming and then disarming
\* (either way) gives back the LoopState from before arming.
ArmBacksUpAndDisarmRestoresLoop ==
    [][\A id \in TrackIdSet :
          /\ (ToggleRecordArm(id) /\ IsDisarmedRecordable(id) /\ loopState.activeLoopId # NULL)
                => /\ loopState'.activeLoopId = NULL
                   /\ loopBackup' = loopState.activeLoopId
                   /\ OpToggleRecordArm(OpToggleRecordArm(St, id), id).loopState = loopState
                   /\ OpToggleRecordArm(OpToggleRecordArm(St, id), id).loopBackup = NULL
                   /\ OpPause(OpToggleRecordArm(St, id)).loopState = loopState
                   /\ OpPause(OpToggleRecordArm(St, id)).loopBackup = NULL
          /\ (ToggleRecordArm(id) /\ IsArmedTrack(id) /\ loopBackup # NULL)
                => /\ loopState'.activeLoopId = loopBackup
                   /\ loopBackup' = NULL
          /\ (Pause /\ IsArmedTrack(id) /\ loopBackup # NULL)
                => /\ loopState'.activeLoopId = loopBackup
                   /\ loopBackup' = NULL
      ]_vars

\* C21 witness: a track is armed and was armed while a loop was active: the
\* loop is the backup, it is still enabled, and activeLoopId is null
ArmedWithLoopBackedUp ==
    /\ \E id \in TrackIdSet : IsArmedTrack(id)
    /\ loopBackup # NULL
    /\ loopState.activeLoopId = NULL
    /\ \E i \in 1..Len(Loops) : Loops[i].id = loopBackup /\ Loops[i].enabled

\* C22: pause() pauses every registered adapter and ends with isPlaying false;
\* a track that was recording ends with recordingState "stopped", and a track
\* that was armed but not yet recording ends disarmed with recordingState "idle".
PauseStopsRecordingAndDisarms ==
    [][Pause =>
          /\ ~playbackState'.isPlaying
          /\ Len(wavesurferInstances') = Len(wavesurferInstances)
          /\ \A i \in 1..Len(wavesurferInstances') : ~wavesurferInstances'[i].playing
          /\ \A i \in 1..Len(tracks) :
                /\ tracks[i].recordingState = "recording"
                      => tracks'[i].recordingState = "stopped"
                /\ (tracks[i].isArmed /\ tracks[i].recordingState # "recording")
                      => (~tracks'[i].isArmed /\ tracks'[i].recordingState = "idle")
      ]_vars

\* C23: when starting the capture fails, the track ends not armed and not
\* recording, and the loop backed up at arm time is active again (the backup
\* is cleared).
CaptureFailureRollsBackArm ==
    [][\A id \in TrackIdSet :
          CaptureFails(id) =>
              /\ ~FindId(tracks', id).isArmed
              /\ FindId(tracks', id).recordingState # "recording"
              /\ loopBackup' = NULL
              /\ loopBackup # NULL => loopState'.activeLoopId = loopBackup
      ]_vars

(***************************************************************************)
(* Caps and references                                                     *)
(***************************************************************************)
\* createLoop returns the new loop's id, or '' when it creates nothing
ReturnedLoopId(before, after) ==
    IF after.nextId.loop = before.nextId.loop THEN NULL ELSE after.nextId.loop

\* C24: addMarker with 20 markers present and createLoop with 10 loops present
\* return the empty id and leave LoopState unchanged; LoopState never holds
\* more than 10 loops.
CapsRefuseAndBoundLoops ==
    /\ [][/\ \A t \in Times :
                (AddMarker(MarkerCap + 1, t) /\ Len(Markers) = MarkerCap)
                   => /\ loopState' = loopState
                      /\ ReturnedMarkerId(St, OpAddMarker(St, t)) = NULL
          /\ \A a, b \in MarkerIds :
                (CreateLoop(LoopCap + 1, a, b) /\ Len(Loops) = LoopCap)
                   => /\ loopState' = loopState
                      /\ ReturnedLoopId(St, OpCreateLoop(St, a, b)) = NULL
        ]_vars
    /\ [](Len(Loops) <= LoopCap)

\* C24 witness: both lists are at their caps, the last loop created in this run
LoopAndMarkerCapsReached ==
    /\ Len(Markers) = MarkerCap
    /\ Len(Loops) = LoopCap
    /\ Loops[LoopCap].startMarkerId # Loops[LoopCap].id

\* C25: no two loops of LoopState have the same (start marker, end marker)
\* pair.
NoTwoLoopsOnSamePair ==
    \A i, j \in 1..Len(Loops) :
        (Loops[i].startMarkerId = Loops[j].startMarkerId
            /\ Loops[i].endMarkerId = Loops[j].endMarkerId) => i = j

LoopListsUnchanged ==
    /\ loopState'.markers = loopState.markers
    /\ loopState'.loops = loopState.loops
    /\ loopState'.activeLoopId = loopState.activeLoopId

\* C26: removeMarker, updateMarkerTime, removeLoop, toggleLoopById,
\* setActiveLoop and createLoop called with a marker or loop id that is not in
\* LoopState leave markers, loops and activeLoopId unchanged.
UnknownIdChangesNothing ==
    [][/\ \A id \in MarkerIds : ~HasId(Markers, id) =>
              /\ RemoveMarker(id) => LoopListsUnchanged
              /\ \A t \in Times : UpdateMarkerTime(id, t) => LoopListsUnchanged
              /\ \A other \in MarkerIds :
                    (CreateLoop(MaxLoopIds - 1, id, other) \/ CreateLoop(MaxLoopIds - 1, other, id))
                        => LoopListsUnchanged
       /\ \A id \in LoopIds : ~HasId(Loops, id) =>
              /\ RemoveLoop(id) => LoopListsUnchanged
              /\ ToggleLoopById(id) => LoopListsUnchanged
              /\ SetActiveLoop(id) => LoopListsUnchanged
      ]_vars

\* C27: after exclusiveSolo(id) on an existing track, id is the only track with
\* isSolo, no track has isMuted, and the adapter of id is the only unmuted
\* adapter.
ExclusiveSoloIsolatesTrack ==
    [][\A id \in TrackIdSet :
          (ExclusiveSolo(id) /\ HasId(tracks, id)) =>
              /\ \A i \in 1..Len(tracks') : tracks'[i].isSolo <=> tracks'[i].id = id
              /\ \A i \in 1..Len(tracks') : ~tracks'[i].isMuted
              /\ \A i \in 1..Len(wavesurferInstances') :
                    wavesurferInstances'[i].muted <=> wavesurferInstances'[i].id # id
      ]_vars

\* C28: the aligned recording has 2 channels and starts with exactly
\* round(compensatedOffset x sampleRate) frames of silence in both channels,
\* followed by all captured frames (total = padding + captured length); for a
\* source of one or two channels the right channel equals the left.  The offset
\* is in halves of a tick: round(offset / 2 x rate) = (offset x rate + 1) div 2.
PaddingIsRoundedOffset ==
    [][\A id \in RecorderIds : \A b \in CapturedBuffers :
          RecordEnd(id, b) =>
              LET padded == recorders'[id].paddedBuffer
                  padding == (recorders'[id].compensatedOffset * b.sampleRate + 1) \div 2
              IN /\ padded.numberOfChannels = 2
                 /\ Len(padded.left) = padding + b.length
                 /\ Len(padded.right) = padding + b.length
                 /\ \A i \in 1..padding :
                       padded.left[i] = Silence /\ padded.right[i] = Silence
                 /\ \A i \in 1..b.length :
                       /\ padded.left[padding + i].index = i - 1
                       /\ padded.right[padding + i].index = i - 1
                 /\ b.numberOfChannels <= 2 => padded.right = padded.left
      ]_vars

(***************************************************************************)
(* Moving markers                                                          *)
(***************************************************************************)
\* C29: updateMarkerTime(id, time) on an existing marker sets its time to
\* min(max(time, 0), duration), changes no other marker's time and leaves the
\* markers sorted by time.
UpdateMarkerTimeClampsAndSorts ==
    [][\A id \in MarkerIdsPresent, t \in PointerTimes :
          UpdateMarkerTime(id, t) =>
              /\ MarkerTime(loopState', id) = Min(Max(t, 0), playbackState.duration)
              /\ Len(loopState'.markers) = Len(Markers)
              /\ \A other \in MarkerIdsPresent \ {id} :
                    /\ HasId(loopState'.markers, other)
                    /\ MarkerTime(loopState', other) = MarkerTime(loopState, other)
              /\ \A i \in 1..(Len(loopState'.markers) - 1) :
                    loopState'.markers[i].time <= loopState'.markers[i + 1].time
      ]_vars

\* C29 witness: a marker that starts a loop has been moved past the loop's end
\* marker, and the marker list is in its new order
MarkerMovedPastLoopEnd ==
    \E i \in 1..Len(Loops) :
        /\ HasId(Markers, Loops[i].startMarkerId) /\ HasId(Markers, Loops[i].endMarkerId)
        /\ MarkerTime(loopState, Loops[i].startMarkerId)
              > MarkerTime(loopState, Loops[i].endMarkerId)
        /\ FindIndexOfId(Markers, Loops[i].startMarkerId)
              > FindIndexOfId(Markers, Loops[i].endMarkerId)


\* the loops as (id, start marker, end marker), whatever their enabled flags
LoopSpans(ls) ==
    [i \in 1..Len(ls.loops) |-> <<ls.loops[i].id, ls.loops[i].startMarkerId,
                                  ls.loops[i].endMarkerId>>]

CrossesActiveLoopEnd(currentTime) ==
    /\ loopState.activeLoopId # NULL
    /\ HasId(Loops, loopState.activeLoopId)
    /\ HasId(Markers, FindId(Loops, loopState.activeLoopId).endMarkerId)
    /\ currentTime >= MarkerTime(loopState, FindId(Loops, loopState.activeLoopId).endMarkerId)

\* C31: a time-update whose position is not at or past the end marker of the
\* active loop changes nothing but the playback-time tracker (which takes the
\* reported position when the update is not throttled away): PlaybackState,
\* LoopState, the finished set and every adapter are as before and no seek
\* is issued
TimeUpdateMovesOnlyTracker ==
    [][\A id \in TrackIdSet, t \in Times, e \in {ThrottleMs, ThrottleMs + 1} :
          (TimeUpdate(id, t, e) /\ ~CrossesActiveLoopEnd(t))
          => /\ UNCHANGED <<tracks, playbackState, loopState, preserveLoopOnNextSeek,
                            loopBackup, recordingStartTime, wavesurferInstances,
                            finishedInstances, isSynchronizing, syncTimers, nextId,
                            recorders, currentPieceId, pieces, addTrackCalls>>
             /\ seekCalls' = <<>>
             /\ playbackTime' = IF e > ThrottleMs THEN t ELSE playbackTime
      ]_vars

\* C31 witness: a loop is active and the tracker holds a position before the
\* loop's end marker that is not the transport's currentTime: a time-update
\* inside the loop has been taken without a seek
TrackerMovedInsideActiveLoop ==
    /\ loopState.activeLoopId # NULL
    /\ HasId(Loops, loopState.activeLoopId)
    /\ FindId(Loops, loopState.activeLoopId).enabled
    /\ HasId(Markers, FindId(Loops, loopState.activeLoopId).endMarkerId)
    /\ playbackTime < MarkerTime(loopState, FindId(Loops, loopState.activeLoopId).endMarkerId)
    /\ playbackTime # playbackState.currentTime
    /\ seekCalls = <<>>


\* C32: every loop whose two markers are in the marker list has its start
\* marker strictly before its end marker in time
LoopStartBeforeEnd ==
    \A i \in 1..Len(Loops) :
        (HasId(Markers, Loops[i].startMarkerId) /\ HasId(Markers, Loops[i].endMarkerId))
        => MarkerTime(loopState, Loops[i].startMarkerId) < MarkerTime(loopState, Loops[i].endMarkerId)


\* C33: every loop refers to two different markers, both in the marker list
LoopsLinkTwoPresentMarkers ==
    \A i \in 1..Len(Loops) :
        /\ Loops[i].startMarkerId # Loops[i].endMarkerId
        /\ HasId(Markers, Loops[i].startMarkerId)
        /\ HasId(Markers, Loops[i].endMarkerId)


\* C34: with at least one registered adapter, the transport is not playing
\* while every registered adapter is in the finished set
NotPlayingWithAllFinished ==
    (Len(wavesurferInstances) > 0 /\ playbackState.isPlaying)
    => \E i \in 1..Len(wavesurferInstances) : wavesurferInstances[i].id \notin finishedInstances


ArmIsExclusiveAndRecordableOnly ==
    /\ Cardinality({i \in 1..Len(tracks) : tracks[i].isArmed}) <= 1
    /\ Cardinality({i \in 1..Len(tracks) : tracks[i].recordingState = "recording"}) <= 1
    /\ \A i \in 1..Len(tracks) :
          /\ tracks[i].recordingState \in {"armed", "recording"} => tracks[i].isArmed
          /\ tracks[i].isArmed => tracks[i].isRecordable

\* C36 witness: beside an audio track, one recordable track is armed and
\* recording while the other, armed and recorded earlier, is stopped and no
\* longer armed
SecondTrackRecordingAfterFirst ==
    \E i, j \in 1..Len(tracks) :
        /\ i # j
        /\ tracks[i].isArmed /\ tracks[i].recordingState = "recording"
        /\ tracks[j].isRecordable /\ ~tracks[j].isArmed /\ tracks[j].recordingState = "stopped"
        /\ \E k \in 1..Len(tracks) : ~tracks[k].isRecordable


\* C37: the suppression flag is true as long as the timer of some seek is
\* still pending
SuppressedWhileTimerPending == syncTimers > 0 => isSynchronizing


\* C38: an edit-layer gesture of 0.5 s or more that does not start on a
\* marker either adds two markers and the loop linking them, or leaves
\* LoopState as it was
DragIsAllOrNothing ==
    [][\A a \in Times, b \in PointerTimes :
          (GestureOffMarkers(a, b) /\ ~(2 * Abs(b - a) < TicksPerSecond)
             /\ EditLayerGesture(MarkerCap + 1, a, b))
          => \/ loopState' = loopState
             \/ /\ Len(loopState'.markers) = Len(Markers) + 2
                /\ Len(loopState'.loops) = Len(Loops) + 1
                /\ LET l == loopState'.loops[Len(loopState'.loops)] IN
                   {l.startMarkerId, l.endMarkerId} = {nextId.marker + 1, nextId.marker + 2}
      ]_vars


\* C39: once no addTrack call of a drop is still waiting, every file the
\* drop handed to addTrack is a track of the store; the drop on a store
\* without a piece creates exactly one piece; the track list never exceeds 8
DropKeepsEveryFileInOnePiece ==
    /\ addTrackCalls = <<>> => Len(tracks) = nextId.track
    /\ nextId.track > 0 => Cardinality(pieces) = 1
    /\ Len(tracks) <= TrackCap

====
